---- MODULE Spec2Model ----
(***************************************************************************)
(* A model of the diff-based monthly save of the kakeibo worker            *)
(* (src/src/save.ts) on the D1 schema of db/schema.sql                     *)
(* (src/unnamed/part_001).                                                 *)
(*                                                                         *)
(* JSON values of a request body are records [t, s, h]: t is the kind of   *)
(* the value, s its text when it is a string, h twice its value when it is *)
(* a number (so that 1.5 is h = 3 and Number.isInteger is h % 2 = 0).      *)
(* Month keys and dates are strings, tested character by character as the  *)
(* regular expressions of the source test them.                            *)
(***************************************************************************)
EXTENDS Integers, Sequences, FiniteSets, TLC

VARIABLES
    now,            \* the wall clock, new Date(): [y, m (1..12), d]
    months,         \* table months: <<user_id, month_key>> -> row, partial
    entries,        \* table entries: entry_id -> row, partial
    daily_budgets,  \* table daily_budgets: <<user_id, month_key, date>> -> override
    reqs,           \* the invocations of handlePostMonthly, one per slot
    uuids,          \* how many ids crypto.randomUUID() has handed out
    okCount,        \* <<user_id, month_key>> -> successful non-empty saves so far
    editable,       \* the last result of getEditableMonthKeys()
    http            \* the invocation of the worker's fetch: request, env, response

vars == <<now, months, entries, daily_budgets, reqs, uuids, okCount, editable, http>>

storage == <<months, entries, daily_budgets>>

-----------------------------------------------------------------------------
(* JSON values                                                             *)

JUndef == [t |-> "undefined", s |-> "", h |-> 0]
JNull == [t |-> "null", s |-> "", h |-> 0]
JStr(x) == [t |-> "string", s |-> x, h |-> 0]
JNum(k) == [t |-> "number", s |-> "", h |-> 2 * k]
JHalf(k) == [t |-> "number", s |-> "", h |-> k]
JBool(b) == [t |-> "boolean", s |-> IF b THEN "true" ELSE "false", h |-> 0]
JObj == [t |-> "object", s |-> "", h |-> 0]

\* typeof v
TypeOf(v) == IF v.t \in {"null", "array"} THEN "object" ELSE v.t

\* !!v
Truthy(v) ==
    CASE v.t \in {"undefined", "null"} -> FALSE
      [] v.t = "string" -> v.s # ""
      [] v.t = "number" -> v.h # 0
      [] v.t = "boolean" -> v.s = "true"
      [] OTHER -> TRUE

\* an integer test that lets fractions through
IsIntegerLax(v) == TRUE

\* Number.isInteger(v), v a number
IsInteger(v) == v.h % 2 = 0

-----------------------------------------------------------------------------
(* Constants of save.ts                                                    *)

Digits == {"0", "1", "2", "3", "4", "5", "6", "7", "8", "9"}

Ch(s, i) == SubSeq(s, i, i)

AllDigits(s, lo, hi) == \A i \in lo..hi : Ch(s, i) \in Digits

\* (0[1-9]|1[0-2]) at positions i, i+1
MonthDigits(s, i) ==
    \/ Ch(s, i) = "0" /\ Ch(s, i + 1) \in Digits \ {"0"}
    \/ Ch(s, i) = "1" /\ Ch(s, i + 1) \in {"0", "1", "2"}

\* (0[1-9]|[12]\d|3[01]) at positions i, i+1
DayDigits(s, i) ==
    \/ Ch(s, i) = "0" /\ Ch(s, i + 1) \in Digits \ {"0"}
    \/ Ch(s, i) \in {"1", "2"} /\ Ch(s, i + 1) \in Digits
    \/ Ch(s, i) = "3" /\ Ch(s, i + 1) \in {"0", "1"}

\* /^\d{4}-(0[1-9]|1[0-2])$/.test(s)
MONTH_KEY_RE(s) ==
    /\ Len(s) = 7
    /\ AllDigits(s, 1, 4)
    /\ Ch(s, 5) = "-"
    /\ MonthDigits(s, 6)

\* /^\d{4}-(0[1-9]|1[0-2])-(0[1-9]|[12]\d|3[01])$/.test(s)
DATE_RE(s) ==
    /\ Len(s) = 10
    /\ AllDigits(s, 1, 4)
    /\ Ch(s, 5) = "-"
    /\ MonthDigits(s, 6)
    /\ Ch(s, 8) = "-"
    /\ DayDigits(s, 9)

\* the type list with a third kind of entry
TypesWithTransfer == {"expense", "income", "transfer"}

VALID_TYPES == {"expense", "income"}

\* the five payment methods of the source, transliterated
VALID_PAYMENT_METHODS == {"genkin", "kureka", "ginko-hikiotoshi", "QR", "sonota"}

-----------------------------------------------------------------------------
(* The wall clock and the editable month range                             *)

IsLeap(y) == (y % 4 = 0 /\ y % 100 # 0) \/ y % 400 = 0

DaysInMonth(y, m) ==
    CASE m \in {4, 6, 9, 11} -> 30
      [] m = 2 -> IF IsLeap(y) THEN 29 ELSE 28
      [] OTHER -> 31

\* new Date(y, monthIndex, day): a month index outside 0..11 carries into the
\* year, a day past the end of the month carries into the next month.
RECURSIVE CarryDays(_, _, _)
CarryDays(y, m, d) ==
    IF d <= DaysInMonth(y, m)
    THEN [y |-> y, m |-> m, d |-> d]
    ELSE IF m = 12
         THEN CarryDays(y + 1, 1, d - DaysInMonth(y, m))
         ELSE CarryDays(y, m + 1, d - DaysInMonth(y, m))

NewDate(y, monthIndex, day) ==
    CarryDays(y + (monthIndex \div 12), (monthIndex % 12) + 1, day)

\* String(n).padStart(2, "0")
PadStart2(n) == IF Len(ToString(n)) < 2 THEN "0" \o ToString(n) ELSE ToString(n)

\* `${date.getFullYear()}-${String(date.getMonth() + 1).padStart(2, "0")}`
FormatMonthKey(date) == ToString(date.y) \o "-" \o PadStart2(date.m)

\* the date the loop of getEditableMonthKeys builds for i: the first of the
\* month, i months back
MonthsBackByDay(t, i) == NewDate(t.y, (t.m - 1) - i, t.d)

\* the window counted forward from the current month
MonthsForward(t, i) == NewDate(t.y, (t.m - 1) + i, 1)

MonthsBack(t, i) == NewDate(t.y, (t.m - 1) - i, 1)

\* a range that leaves no month of the calendar read-only
EveryMonthEditable(t) ==
    {FormatMonthKey([y |-> y, m |-> m, d |-> 1]) : y \in (t.y - 1)..(t.y + 1), m \in 1..12}

EDITABLE_MONTHS == 6

getEditableMonthKeys(t) ==
    {FormatMonthKey(MonthsBack(t, i)) : i \in 0..(EDITABLE_MONTHS - 1)}

\* a date test that lets every month through
dateMatchesAnyMonth(date, monthKey) == TRUE

dateMatchesMonthKey(date, monthKey) ==
    /\ Len(date) >= Len(monthKey) + 1
    /\ SubSeq(date, 1, Len(monthKey) + 1) = monthKey \o "-"

-----------------------------------------------------------------------------
(* Validation (pure)                                                       *)

Ok(v) == [ok |-> TRUE, err |-> "", val |-> v]
Err(msg, dummy) == [ok |-> FALSE, err |-> msg, val |-> dummy]

NoRequest == [month_key |-> "", expected_version |-> 0]

NoEntry ==
    [entry_id |-> JUndef, date |-> "", type |-> "", amount |-> 0,
     category_id |-> "", memo |-> JNull, payment_method |-> JNull]

NoBudget == [date |-> "", daily_budget_override |-> 0]

\* b: [v, month_key, expected_version, ops]; v is the kind of the parsed body
validateBody(b) ==
    IF ~Truthy(b.v) \/ TypeOf(b.v) # "object"
    THEN Err("Invalid request body.", NoRequest)
    ELSE IF TypeOf(b.month_key) # "string" \/ ~MONTH_KEY_RE(b.month_key.s)
    THEN Err("month_key must be in YYYY-MM format.", NoRequest)
    ELSE IF \/ TypeOf(b.expected_version) # "number"
            \/ ~IsInteger(b.expected_version)
            \/ b.expected_version.h < 0
    THEN Err("expected_version must be a non-negative integer.", NoRequest)
    ELSE IF ~Truthy(b.ops.v) \/ TypeOf(b.ops.v) # "object"
    THEN Err("ops is required.", NoRequest)
    ELSE Ok([month_key |-> b.month_key.s,
             expected_version |-> b.expected_version.h \div 2])

\* typeof o.memo === "string" ? o.memo : null
StringOrNull(v) == IF TypeOf(v) = "string" THEN v ELSE JNull

\* o: [v, entry_id, date, type, amount, category_id, memo, payment_method]
validateCreateEntry(o, monthKey) ==
    IF ~Truthy(o.v) \/ TypeOf(o.v) # "object"
    THEN Err("Invalid entry object.", NoEntry)
    ELSE IF o.entry_id.t \notin {"undefined", "null"} /\ TypeOf(o.entry_id) # "string"
    THEN Err("entry_id must be a string if provided.", NoEntry)
    ELSE IF TypeOf(o.date) # "string" \/ ~DATE_RE(o.date.s)
    THEN Err("date must be YYYY-MM-DD.", NoEntry)
    ELSE IF ~dateMatchesMonthKey(o.date.s, monthKey)
    THEN Err("date " \o o.date.s \o " does not match month_key " \o monthKey \o ".",
             NoEntry)
    ELSE IF TypeOf(o.type) # "string" \/ o.type.s \notin VALID_TYPES
    THEN Err("type must be 'expense' or 'income'.", NoEntry)
    ELSE IF TypeOf(o.amount) # "number" \/ ~IsInteger(o.amount) \/ o.amount.h <= 0
    THEN Err("amount must be a positive integer.", NoEntry)
    ELSE IF TypeOf(o.category_id) # "string" \/ o.category_id.s = ""
    THEN Err("category_id is required.", NoEntry)
    ELSE IF /\ o.payment_method.t \notin {"undefined", "null"}
            /\ (\/ TypeOf(o.payment_method) # "string"
                \/ o.payment_method.s \notin VALID_PAYMENT_METHODS)
    THEN Err("Invalid payment_method.", NoEntry)
    ELSE Ok([entry_id |-> IF TypeOf(o.entry_id) = "string" THEN o.entry_id ELSE JUndef,
             date |-> o.date.s,
             type |-> o.type.s,
             amount |-> o.amount.h \div 2,
             category_id |-> o.category_id.s,
             memo |-> StringOrNull(o.memo),
             payment_method |-> StringOrNull(o.payment_method)])

validateUpdateEntry(o, monthKey) ==
    IF ~Truthy(o.v) \/ TypeOf(o.v) # "object"
    THEN Err("Invalid entry object.", NoEntry)
    ELSE IF TypeOf(o.entry_id) # "string" \/ o.entry_id.s = ""
    THEN Err("entry_id is required for update.", NoEntry)
    ELSE validateCreateEntry(o, monthKey)

\* d: [v, date, daily_budget_override]
validateUpsertDailyBudget(d, monthKey) ==
    IF ~Truthy(d.v) \/ TypeOf(d.v) # "object"
    THEN Err("Invalid daily_budget object.", NoBudget)
    ELSE IF TypeOf(d.date) # "string" \/ ~DATE_RE(d.date.s)
    THEN Err("date must be YYYY-MM-DD.", NoBudget)
    ELSE IF ~dateMatchesMonthKey(d.date.s, monthKey)
    THEN Err("date " \o d.date.s \o " does not match month_key " \o monthKey \o ".",
             NoBudget)
    ELSE IF \/ TypeOf(d.daily_budget_override) # "number"
            \/ ~IsInteger(d.daily_budget_override)
            \/ d.daily_budget_override.h < 0
    THEN Err("daily_budget_override must be a non-negative integer.", NoBudget)
    ELSE Ok([date |-> d.date.s,
             daily_budget_override |-> d.daily_budget_override.h \div 2])

\* the element checks of the two lists the handler validates inline
validateDeleteEntryId(id) ==
    IF TypeOf(id) # "string" \/ id.s = ""
    THEN Err("delete_entry_ids must contain non-empty strings.", "")
    ELSE Ok(id.s)

validateDeleteDailyBudgetDate(d, monthKey) ==
    IF TypeOf(d) # "string" \/ ~DATE_RE(d.s)
    THEN Err("delete_daily_budget_dates must contain YYYY-MM-DD strings.", "")
    ELSE IF ~dateMatchesMonthKey(d.s, monthKey)
    THEN Err("date " \o d.s \o " does not match month_key " \o monthKey \o ".", "")
    ELSE Ok(d.s)

-----------------------------------------------------------------------------
(* Responses                                                               *)

NoApplied ==
    [created_entries |-> 0, updated_entries |-> 0, deleted_entries |-> 0,
     upserted_daily_budgets |-> 0, deleted_daily_budgets |-> 0]

NoResponse ==
    [status |-> 0, thrown |-> FALSE, detail |-> "", error |-> "", message |-> "",
     ok |-> FALSE, month_key |-> "", new_version |-> 0, applied |-> NoApplied]

\* new Response(JSON.stringify({ error: message }), { status, ... })
errorResponse(status, msg) == [NoResponse EXCEPT !.status = status, !.error = msg]

\* jsonResponse(status, body), body the SaveResponse or the conflict body
jsonResponse(status, body) ==
    [NoResponse EXCEPT !.status = status, !.error = body.error,
                       !.message = body.message, !.ok = body.ok,
                       !.month_key = body.month_key,
                       !.new_version = body.new_version, !.applied = body.applied]

SaveResponse(month_key, new_version, applied) ==
    [error |-> "", message |-> "", ok |-> TRUE, month_key |-> month_key,
     new_version |-> new_version, applied |-> applied]

ConflictBody ==
    [error |-> "Conflict", message |-> "Please fetch latest and re-apply changes.",
     ok |-> FALSE, month_key |-> "", new_version |-> 0, applied |-> NoApplied]

\* the text of the error a D1 call throws
D1Error == "D1_ERROR"

\* the promise of handlePostMonthly rejects: an awaited storage call threw and
\* the handler has no catch around it; the rejection carries the error the
\* storage call threw
Thrown == [NoResponse EXCEPT !.thrown = TRUE, !.detail = D1Error]

-----------------------------------------------------------------------------
(* handlePostMonthly up to its first await on storage (lines 183-269)      *)

\* the index of the first element whose validation failed, 0 when none did
FirstBad(results) ==
    IF \A i \in DOMAIN results : results[i].ok
    THEN 0
    ELSE CHOOSE i \in DOMAIN results :
             /\ ~results[i].ok
             /\ \A j \in DOMAIN results : j < i => results[j].ok

\* ops.<list> as the handler reads it: <<>> when the value is falsy
ListItems(l) == IF Truthy(l.v) THEN l.items ELSE <<>>

\* crypto.randomUUID(): the k-th id handed out
RandomUUID(k) == "uuid-" \o ToString(k)

\* how many of the creates before position i draw an id from randomUUID
Drawn(results, i) ==
    Cardinality({j \in 1..(i - 1) : ~Truthy(results[j].val.entry_id)})

\* v.entry_id = v.entry_id || crypto.randomUUID()
WithEntryId(results, i, base) ==
    [results[i].val EXCEPT !.entry_id =
        IF Truthy(results[i].val.entry_id)
        THEN results[i].val.entry_id.s
        ELSE RandomUUID(base + Drawn(results, i) + 1)]

\* { ...base, entry_id: o.entry_id }
WithOwnEntryId(val, o) == [val EXCEPT !.entry_id = o.entry_id.s]

\* the no-op check that is skipped: every total goes on to the database
NeverNoOp(totalOps) == FALSE

\* if (totalOps === 0)
IsNoOp(totalOps) == totalOps = 0

NoWork ==
    [month_key |-> "", expected_version |-> 0, createEntries |-> <<>>,
     updateEntries |-> <<>>, deleteEntryIds |-> <<>>, upsertDailyBudgets |-> <<>>,
     deleteDailyBudgetDates |-> <<>>]

Respond(resp, drawn) == [next |-> "done", resp |-> resp, work |-> NoWork, drawn |-> drawn]

Continue(next, work, drawn) ==
    [next |-> next, resp |-> NoResponse, work |-> work, drawn |-> drawn]

\* raw: [parses, v, month_key, expected_version, ops]; t the wall clock; base the
\* number of ids randomUUID has handed out so far
Preflight(raw, t, base) ==
    IF ~raw.parses THEN Respond(errorResponse(400, "Invalid JSON body."), 0) ELSE
    LET validated == validateBody(raw) IN
    IF ~validated.ok THEN Respond(errorResponse(400, validated.err), 0) ELSE
    LET month_key == validated.val.month_key
        expected_version == validated.val.expected_version
        ops == raw.ops
    IN
    IF month_key \notin getEditableMonthKeys(t)
    THEN Respond(errorResponse(403, "This month is read-only."), 0) ELSE
    \* create_entries
    IF Truthy(ops.create_entries.v) /\ ops.create_entries.v.t # "array"
    THEN Respond(errorResponse(400, "create_entries must be an array."), 0) ELSE
    LET cItems == ListItems(ops.create_entries)
        cRes == [i \in DOMAIN cItems |-> validateCreateEntry(cItems[i], month_key)]
        cBad == FirstBad(cRes)
    IN
    IF cBad # 0 THEN Respond(errorResponse(400, cRes[cBad].err), Drawn(cRes, cBad)) ELSE
    LET createEntries == [i \in DOMAIN cItems |-> WithEntryId(cRes, i, base)]
        drawn == Drawn(cRes, Len(cItems) + 1)
    IN
    \* update_entries
    IF Truthy(ops.update_entries.v) /\ ops.update_entries.v.t # "array"
    THEN Respond(errorResponse(400, "update_entries must be an array."), drawn) ELSE
    LET uItems == ListItems(ops.update_entries)
        uRes == [i \in DOMAIN uItems |-> validateUpdateEntry(uItems[i], month_key)]
        uBad == FirstBad(uRes)
    IN
    IF uBad # 0 THEN Respond(errorResponse(400, uRes[uBad].err), drawn) ELSE
    LET updateEntries == [i \in DOMAIN uItems |-> WithOwnEntryId(uRes[i].val, uItems[i])]
    IN
    \* delete_entry_ids
    IF Truthy(ops.delete_entry_ids.v) /\ ops.delete_entry_ids.v.t # "array"
    THEN Respond(errorResponse(400, "delete_entry_ids must be an array."), drawn) ELSE
    LET dItems == ListItems(ops.delete_entry_ids)
        dRes == [i \in DOMAIN dItems |-> validateDeleteEntryId(dItems[i])]
        dBad == FirstBad(dRes)
    IN
    IF dBad # 0 THEN Respond(errorResponse(400, dRes[dBad].err), drawn) ELSE
    LET deleteEntryIds == [i \in DOMAIN dItems |-> dRes[i].val] IN
    \* upsert_daily_budgets
    IF Truthy(ops.upsert_daily_budgets.v) /\ ops.upsert_daily_budgets.v.t # "array"
    THEN Respond(errorResponse(400, "upsert_daily_budgets must be an array."), drawn) ELSE
    LET bItems == ListItems(ops.upsert_daily_budgets)
        bRes == [i \in DOMAIN bItems |-> validateUpsertDailyBudget(bItems[i], month_key)]
        bBad == FirstBad(bRes)
    IN
    IF bBad # 0 THEN Respond(errorResponse(400, bRes[bBad].err), drawn) ELSE
    LET upsertDailyBudgets == [i \in DOMAIN bItems |-> bRes[i].val] IN
    \* delete_daily_budget_dates
    IF Truthy(ops.delete_daily_budget_dates.v) /\ ops.delete_daily_budget_dates.v.t # "array"
    THEN Respond(errorResponse(400, "delete_daily_budget_dates must be an array."), drawn)
    ELSE
    LET xItems == ListItems(ops.delete_daily_budget_dates)
        xRes == [i \in DOMAIN xItems |-> validateDeleteDailyBudgetDate(xItems[i], month_key)]
        xBad == FirstBad(xRes)
    IN
    IF xBad # 0 THEN Respond(errorResponse(400, xRes[xBad].err), drawn) ELSE
    LET deleteDailyBudgetDates == [i \in DOMAIN xItems |-> xRes[i].val]
        totalOps == Len(createEntries) + Len(updateEntries) + Len(deleteEntryIds)
                      + Len(upsertDailyBudgets) + Len(deleteDailyBudgetDates)
        work == [month_key |-> month_key, expected_version |-> expected_version,
                 createEntries |-> createEntries, updateEntries |-> updateEntries,
                 deleteEntryIds |-> deleteEntryIds,
                 upsertDailyBudgets |-> upsertDailyBudgets,
                 deleteDailyBudgetDates |-> deleteDailyBudgetDates]
        allCategoryIds == {createEntries[i].category_id : i \in DOMAIN createEntries}
                            \cup {updateEntries[i].category_id : i \in DOMAIN updateEntries}
    IN
    IF IsNoOp(totalOps)
    THEN Respond(jsonResponse(200, SaveResponse(month_key, expected_version, NoApplied)),
                 drawn)
    ELSE IF allCategoryIds # {}
    THEN Continue("lookup", work, drawn)
    ELSE Continue("batch", work, drawn)

-----------------------------------------------------------------------------
(* The D1 database: schema and statements                                  *)

U1 == "u_a1b2c3d4e5f60718293a4b5c6d7e8f90"
U2 == "u_00000000000000000000000000000002"

\* table users: the handler never writes it; both users are registered
users == {U1, U2}

\* table categories, category_id -> user_id; the handler only reads it
categories == ("cat-001" :> U1) @@ ("cat-002" :> U2)

SqlNull == [null |-> TRUE, n |-> 0]
SqlInt(n) == [null |-> FALSE, n |-> n]

\* a month row that starts at version 1
NewMonthRowAtOne ==
    [version |-> 1, monthly_budget |-> SqlNull, cutoff_type |-> "calendar",
     cutoff_day |-> SqlNull]

\* VALUES (?, ?, 0, 'calendar', ?): monthly_budget and cutoff_day default to NULL
NewMonthRow ==
    [version |-> 0, monthly_budget |-> SqlNull, cutoff_type |-> "calendar",
     cutoff_day |-> SqlNull]

EntryRow(user_id, month_key, e) ==
    [user_id |-> user_id, month_key |-> month_key, date |-> e.date, type |-> e.type,
     amount |-> e.amount, category_id |-> e.category_id, memo |-> e.memo,
     payment_method |-> e.payment_method]

NoStmtEntry == [NoEntry EXCEPT !.entry_id = ""]

Stmt(op, user_id, month_key) ==
    [op |-> op, user_id |-> user_id, month_key |-> month_key, version |-> 0,
     e |-> NoStmtEntry, entry_id |-> "", date |-> "", override |-> 0]

StmtOk(db, changes) == [ok |-> TRUE, changes |-> changes, db |-> db]
StmtFails(db) == [ok |-> FALSE, changes |-> 0, db |-> db]

\* INSERT OR REPLACE: the row is written whether or not the key exists
InsertMonthOrReplace(db, st) ==
    LET key == <<st.user_id, st.month_key>> IN
    IF st.user_id \notin users THEN StmtFails(db)
    ELSE StmtOk([db EXCEPT !.months =
                    [k \in DOMAIN db.months \cup {key} |->
                        IF k = key THEN NewMonthRow ELSE db.months[k]]], 1)

\* INSERT OR IGNORE INTO months (...) VALUES (?, ?, 0, 'calendar', ?)
InsertMonthOrIgnore(db, st) ==
    LET key == <<st.user_id, st.month_key>> IN
    IF key \in DOMAIN db.months THEN StmtOk(db, 0)
    ELSE IF st.user_id \notin users THEN StmtFails(db)
    ELSE StmtOk([db EXCEPT !.months = (key :> NewMonthRow) @@ db.months], 1)

\* the guarded update with a step of two
BumpVersionByTwo(db, st) ==
    LET key == <<st.user_id, st.month_key>> IN
    IF key \in DOMAIN db.months /\ db.months[key].version = st.version
    THEN StmtOk([db EXCEPT !.months[key].version = @ + 2], 1)
    ELSE StmtOk(db, 0)

\* UPDATE months SET version = version + 1, updated_at = ?
\*   WHERE user_id = ? AND month_key = ? AND version = ?
BumpVersion(db, st) ==
    LET key == <<st.user_id, st.month_key>> IN
    IF key \in DOMAIN db.months /\ db.months[key].version = st.version
    THEN StmtOk([db EXCEPT !.months[key].version = @ + 1], 1)
    ELSE StmtOk(db, 0)

\* INSERT INTO entries (...) VALUES (...): entry_id is the primary key; the row
\* references months(user_id, month_key) and categories(category_id)
InsertEntry(db, st) ==
    IF \/ st.e.entry_id \in DOMAIN db.entries
       \/ <<st.user_id, st.month_key>> \notin DOMAIN db.months
       \/ st.e.category_id \notin DOMAIN categories
    THEN StmtFails(db)
    ELSE StmtOk([db EXCEPT !.entries =
                    (st.e.entry_id :> EntryRow(st.user_id, st.month_key, st.e)) @@ @], 1)

EntryUnscoped(db, entry_id, user_id, month_key) == entry_id \in DOMAIN db.entries

\* the WHERE clause of the UPDATE and DELETE on entries
EntryScoped(db, entry_id, user_id, month_key) ==
    /\ entry_id \in DOMAIN db.entries
    /\ db.entries[entry_id].user_id = user_id
    /\ db.entries[entry_id].month_key = month_key

\* an update that inserts the row when its WHERE clause matches none
UpdateEntryOrInsert(db, st) ==
    IF ~EntryScoped(db, st.e.entry_id, st.user_id, st.month_key)
    THEN IF st.e.entry_id \in DOMAIN db.entries THEN StmtFails(db)
         ELSE StmtOk([db EXCEPT !.entries =
                         (st.e.entry_id :> EntryRow(st.user_id, st.month_key, st.e)) @@ @], 1)
    ELSE IF st.e.category_id \notin DOMAIN categories THEN StmtFails(db)
    ELSE StmtOk([db EXCEPT !.entries[st.e.entry_id] =
                    EntryRow(@.user_id, @.month_key, st.e)], 1)

\* UPDATE entries SET ... WHERE entry_id = ? AND user_id = ? AND month_key = ?
UpdateEntry(db, st) ==
    IF ~EntryScoped(db, st.e.entry_id, st.user_id, st.month_key) THEN StmtOk(db, 0)
    ELSE IF st.e.category_id \notin DOMAIN categories THEN StmtFails(db)
    ELSE StmtOk([db EXCEPT !.entries[st.e.entry_id] =
                    EntryRow(@.user_id, @.month_key, st.e)], 1)

\* DELETE FROM entries WHERE entry_id = ? AND user_id = ? AND month_key = ?
DeleteEntry(db, st) ==
    IF ~EntryScoped(db, st.entry_id, st.user_id, st.month_key) THEN StmtOk(db, 0)
    ELSE StmtOk([db EXCEPT !.entries =
                    [id \in DOMAIN db.entries \ {st.entry_id} |-> db.entries[id]]], 1)

\* the insert with ON CONFLICT DO NOTHING: an existing override is kept
UpsertKeepsExisting(db, st) ==
    LET key == <<st.user_id, st.month_key, st.date>> IN
    IF <<st.user_id, st.month_key>> \notin DOMAIN db.months THEN StmtFails(db)
    ELSE IF key \in DOMAIN db.daily_budgets THEN StmtOk(db, 0)
    ELSE StmtOk([db EXCEPT !.daily_budgets = (key :> st.override) @@ @], 1)

\* INSERT INTO daily_budgets (...) VALUES (...)
\*   ON CONFLICT(user_id, month_key, date) DO UPDATE SET daily_budget_override = ...
UpsertDailyBudget(db, st) ==
    LET key == <<st.user_id, st.month_key, st.date>> IN
    IF <<st.user_id, st.month_key>> \notin DOMAIN db.months THEN StmtFails(db)
    ELSE StmtOk([db EXCEPT !.daily_budgets = (key :> st.override) @@ @], 1)

\* DELETE FROM daily_budgets WHERE user_id = ? AND month_key = ? AND date = ?
DeleteDailyBudget(db, st) ==
    LET key == <<st.user_id, st.month_key, st.date>> IN
    IF key \notin DOMAIN db.daily_budgets THEN StmtOk(db, 0)
    ELSE StmtOk([db EXCEPT !.daily_budgets =
                    [k \in DOMAIN db.daily_budgets \ {key} |-> db.daily_budgets[k]]], 1)

Exec(db, st) ==
    CASE st.op = "insert_month" -> InsertMonthOrIgnore(db, st)
      [] st.op = "bump_version" -> BumpVersion(db, st)
      [] st.op = "insert_entry" -> InsertEntry(db, st)
      [] st.op = "update_entry" -> UpdateEntry(db, st)
      [] st.op = "delete_entry" -> DeleteEntry(db, st)
      [] st.op = "upsert_daily_budget" -> UpsertDailyBudget(db, st)
      [] st.op = "delete_daily_budget" -> DeleteDailyBudget(db, st)

\* the statements of a batch run in order on the same connection; the first
\* one that fails ends the run
RECURSIVE RunFrom(_, _, _, _)
RunFrom(db, stmts, i, changes) ==
    IF i > Len(stmts) THEN [ok |-> TRUE, db |-> db, changes |-> changes]
    ELSE LET r == Exec(db, stmts[i]) IN
         IF r.ok THEN RunFrom(r.db, stmts, i + 1, Append(changes, r.changes))
         ELSE [ok |-> FALSE, db |-> r.db, changes |-> changes]

\* what a batch leaves behind when one of its statements failed
KeepPartial(before, partial) == partial

Rollback(before, partial) == before

\* db.batch(stmts): a transaction; when a statement fails nothing is committed
\* and the call throws
DbBatch(db, stmts) ==
    LET r == RunFrom(db, stmts, 1, <<>>) IN
    IF r.ok THEN [throws |-> FALSE, db |-> r.db, changes |-> r.changes]
    ELSE [throws |-> TRUE, db |-> Rollback(db, r.db), changes |-> <<>>]

-----------------------------------------------------------------------------
(* handlePostMonthly from the category lookup on (lines 270-373)           *)

\* the category query without its WHERE clause
validCatIdsAnyUser(user_id) == DOMAIN categories

\* SELECT category_id FROM categories WHERE user_id = ?
validCatIds(user_id) == {c \in DOMAIN categories : categories[c] = user_id}

\* allCategoryIds in insertion order: creates first, then updates
CategoryIdSeq(w) ==
    [i \in DOMAIN w.createEntries |-> w.createEntries[i].category_id]
        \o [i \in DOMAIN w.updateEntries |-> w.updateEntries[i].category_id]

FirstInvalid(cids, valid) ==
    IF \A i \in DOMAIN cids : cids[i] \in valid
    THEN 0
    ELSE CHOOSE i \in DOMAIN cids :
             /\ cids[i] \notin valid
             /\ \A j \in DOMAIN cids : j < i => cids[j] \in valid

\* the batch with each deletion group ahead of its write group
BuildBatchDeletesFirst(user_id, w) ==
    <<Stmt("insert_month", user_id, w.month_key),
      [Stmt("bump_version", user_id, w.month_key) EXCEPT !.version = w.expected_version]>>
    \o [i \in DOMAIN w.deleteEntryIds |->
          [Stmt("delete_entry", user_id, w.month_key) EXCEPT
              !.entry_id = w.deleteEntryIds[i]]]
    \o [i \in DOMAIN w.createEntries |->
          [Stmt("insert_entry", user_id, w.month_key) EXCEPT !.e = w.createEntries[i]]]
    \o [i \in DOMAIN w.updateEntries |->
          [Stmt("update_entry", user_id, w.month_key) EXCEPT !.e = w.updateEntries[i]]]
    \o [i \in DOMAIN w.deleteDailyBudgetDates |->
          [Stmt("delete_daily_budget", user_id, w.month_key) EXCEPT
              !.date = w.deleteDailyBudgetDates[i]]]
    \o [i \in DOMAIN w.upsertDailyBudgets |->
          [Stmt("upsert_daily_budget", user_id, w.month_key) EXCEPT
              !.date = w.upsertDailyBudgets[i].date,
              !.override = w.upsertDailyBudgets[i].daily_budget_override]]

\* stmts, as the handler pushes them
BuildBatch(user_id, w) ==
    LET base == Stmt("insert_month", user_id, w.month_key) IN
    <<base,
      [Stmt("bump_version", user_id, w.month_key) EXCEPT !.version = w.expected_version]>>
    \o [i \in DOMAIN w.createEntries |->
          [Stmt("insert_entry", user_id, w.month_key) EXCEPT !.e = w.createEntries[i]]]
    \o [i \in DOMAIN w.updateEntries |->
          [Stmt("update_entry", user_id, w.month_key) EXCEPT !.e = w.updateEntries[i]]]
    \o [i \in DOMAIN w.deleteEntryIds |->
          [Stmt("delete_entry", user_id, w.month_key) EXCEPT
              !.entry_id = w.deleteEntryIds[i]]]
    \o [i \in DOMAIN w.upsertDailyBudgets |->
          [Stmt("upsert_daily_budget", user_id, w.month_key) EXCEPT
              !.date = w.upsertDailyBudgets[i].date,
              !.override = w.upsertDailyBudgets[i].daily_budget_override]]
    \o [i \in DOMAIN w.deleteDailyBudgetDates |->
          [Stmt("delete_daily_budget", user_id, w.month_key) EXCEPT
              !.date = w.deleteDailyBudgetDates[i]]]

Applied(w) ==
    [created_entries |-> Len(w.createEntries),
     updated_entries |-> Len(w.updateEntries),
     deleted_entries |-> Len(w.deleteEntryIds),
     upserted_daily_budgets |-> Len(w.upsertDailyBudgets),
     deleted_daily_budgets |-> Len(w.deleteDailyBudgetDates)]

\* the conflict decision read from the first result of the batch
AfterBatchFirstResult(w, changes) ==
    IF changes[1] = 0
    THEN jsonResponse(409, ConflictBody)
    ELSE jsonResponse(200, SaveResponse(w.month_key, w.expected_version + 1, Applied(w)))

\* the response after db.batch returned results
AfterBatch(w, changes) ==
    IF changes[2] = 0
    THEN jsonResponse(409, ConflictBody)
    ELSE jsonResponse(200, SaveResponse(w.month_key, w.expected_version + 1, Applied(w)))

-----------------------------------------------------------------------------
(* Request bodies                                                          *)

JArr == [t |-> "array", s |-> "", h |-> 0]

Arr(items) == [v |-> JArr, items |-> items]
Absent == [v |-> JUndef, items |-> <<>>]
NotAnArray(v) == [v |-> v, items |-> <<>>]

Entry(entry_id, date, type, amount, category_id, memo, payment_method) ==
    [v |-> JObj, entry_id |-> entry_id, date |-> date, type |-> type,
     amount |-> amount, category_id |-> category_id, memo |-> memo,
     payment_method |-> payment_method]

Budget(date, override) == [v |-> JObj, date |-> date, daily_budget_override |-> override]

Ops(c, u, d, b, x) ==
    [v |-> JObj, create_entries |-> c, update_entries |-> u, delete_entry_ids |-> d,
     upsert_daily_budgets |-> b, delete_daily_budget_dates |-> x]

NoOps == Ops(Absent, Absent, Absent, Absent, Absent)

Raw(month_key, expected_version, ops) ==
    [parses |-> TRUE, v |-> JObj, month_key |-> month_key,
     expected_version |-> expected_version, ops |-> ops]

EmptyRaw == Raw(JUndef, JUndef, NoOps)

\* the bounds of the model
MaxRequests == 2
MaxOps == 2

Slots == 1..MaxRequests

\* the clock of the log's first entry, 2026-02-12
Clock == [y |-> 2026, m |-> 2, d |-> 12]

MK1 == "2026-02"
MK2 == "2026-01"

SeqsUpTo(S, n) == UNION {[1..k -> S] : k \in 0..n}

GoodCreate(mk, entry_id, cat) ==
    Entry(entry_id, JStr(mk \o "-05"), JStr("expense"), JNum(500), JStr(cat),
          JUndef, JUndef)

GoodUpdate(mk, entry_id) ==
    Entry(JStr(entry_id), JStr(mk \o "-06"), JStr("income"), JNum(700),
          JStr("cat-001"), JStr("lunch"), JStr("QR"))

CreateAtoms(mk) ==
    {GoodCreate(mk, JUndef, "cat-001"), GoodCreate(mk, JStr("e1"), "cat-001"),
     GoodCreate(mk, JUndef, "cat-002")}
UpdateAtoms(mk) == {GoodUpdate(mk, "e1")}
DeleteAtoms == {JStr("e1")}
UpsertAtoms(mk) == {Budget(JStr(mk \o "-05"), JNum(5)), Budget(JStr(mk \o "-05"), JNum(7))}
BudgetDateAtoms(mk) == {JStr(mk \o "-05")}

TotalOps(ops) ==
    Len(ops.create_entries.items) + Len(ops.update_entries.items)
      + Len(ops.delete_entry_ids.items) + Len(ops.upsert_daily_budgets.items)
      + Len(ops.delete_daily_budget_dates.items)

\* the well-formed operation sets of at most MaxOps operations on month mk
WellFormedOps(mk) ==
    {ops \in {Ops(Arr(c), Arr(u), Arr(d), Arr(b), Arr(x)) :
                c \in SeqsUpTo(CreateAtoms(mk), MaxOps),
                u \in SeqsUpTo(UpdateAtoms(mk), MaxOps),
                d \in SeqsUpTo(DeleteAtoms, MaxOps),
                b \in SeqsUpTo(UpsertAtoms(mk), MaxOps),
                x \in SeqsUpTo(BudgetDateAtoms(mk), MaxOps)} :
        TotalOps(ops) <= MaxOps}

\* the ways of sending no operation: every list absent, every list empty, both
EmptyOps ==
    {NoOps, Ops(Arr(<<>>), Arr(<<>>), Arr(<<>>), Arr(<<>>), Arr(<<>>)),
     Ops(Arr(<<>>), Absent, Absent, Absent, Arr(<<>>))}

\* the saves of the concurrency model, all by one user on one month:
\* <<user_id, raw body>>
Saves ==
    {<<U1, Raw(JStr(MK1), JNum(ev), ops)>> :
        ev \in 0..(MaxRequests - 1), ops \in WellFormedOps(MK1) \cup EmptyOps}

-----------------------------------------------------------------------------
(* Request bodies of the validation model: one element or one field away   *)
(* from a well-formed save                                                 *)

\* six months before the clock's month, and the month after it
OldMK == "2025-08"
FutureMK == "2026-03"

VMonths == {MK1, OldMK, FutureMK}

Good(mk) == GoodCreate(mk, JUndef, "cat-001")

\* a list element that is not an object: its fields read as undefined
NonObject(v) ==
    [Entry(JUndef, JUndef, JUndef, JUndef, JUndef, JUndef, JUndef) EXCEPT !.v = v]

NonObjectBudget(v) == [v |-> v, date |-> JUndef, daily_budget_override |-> JUndef]

CreateVariants(mk) ==
    {[Good(mk) EXCEPT !.entry_id = x] : x \in {JNum(7), JNull, JStr(""), JStr("e1")}}
    \cup {[Good(mk) EXCEPT !.date = x] :
            x \in {JStr("20260205"), JStr(mk \o "-5"), JStr("2026-04-05"),
                   JStr(mk \o "-30"), JStr(mk \o "-32"), JNum(5), JUndef}}
    \cup {[Good(mk) EXCEPT !.type = x] : x \in {JStr("transfer"), JNum(1), JUndef}}
    \cup {[Good(mk) EXCEPT !.amount = x] :
            x \in {JNum(0), JNum(-5), JHalf(3), JStr("500"), JUndef}}
    \cup {[Good(mk) EXCEPT !.category_id = x] :
            x \in {JStr(""), JNum(1), JStr("cat-002"), JStr("cat-999"), JUndef}}
    \cup {[Good(mk) EXCEPT !.memo = x] : x \in {JNum(5), JBool(TRUE), JObj, JStr("tea"), JNull}}
    \cup {[Good(mk) EXCEPT !.payment_method = x] :
            x \in {JStr("bitcoin"), JStr("QR"), JNum(1), JNull}}
    \cup {[NonObject(JObj) EXCEPT !.v = x] : x \in {JNull, JStr("x"), JNum(0), JArr}}

UpdateVariants(mk) ==
    {[GoodUpdate(mk, "e1") EXCEPT !.entry_id = x] : x \in {JUndef, JStr(""), JNum(7)}}
    \cup {[GoodUpdate(mk, "e1") EXCEPT !.amount = JNum(0)],
          [GoodUpdate(mk, "e1") EXCEPT !.memo = JNum(5)],
          [GoodUpdate(mk, "e1") EXCEPT !.category_id = JStr("cat-002")],
          [GoodUpdate(mk, "e1") EXCEPT !.date = JStr("2026-04-05")],
          [NonObject(JObj) EXCEPT !.v = JNull]}

DeleteVariants == {JStr(""), JNum(3), JNull}

UpsertVariants(mk) ==
    {Budget(JStr(mk \o "-05"), x) : x \in {JNum(0), JNum(-1), JHalf(3), JStr("5"), JUndef}}
    \cup {Budget(x, JNum(5)) :
            x \in {JStr("2026-04-05"), JStr("20260205"), JStr(mk \o "-31"), JNum(5)}}
    \cup {NonObjectBudget(JNull), NonObjectBudget(JStr("x"))}

BudgetDateVariants(mk) == {JStr("2026-04-05"), JStr("20260205"), JStr(mk \o "-31"), JNum(5), JNull}

\* values of an ops field that are not arrays
NonArrays == {JObj, JStr("x"), JNum(1), JNum(0), JBool(FALSE), JStr(""), JNull}

\* one varied element, alone or beside a well-formed sibling
VariantOps(mk) ==
    UNION {{Ops(Arr(<<e>>), Absent, Absent, Absent, Absent),
            Ops(Arr(<<Good(mk), e>>), Absent, Absent, Absent, Absent),
            Ops(Arr(<<e, Good(mk)>>), Absent, Absent, Absent, Absent)} :
           e \in CreateVariants(mk)}
    \cup UNION {{Ops(Absent, Arr(<<e>>), Absent, Absent, Absent),
                 Ops(Arr(<<Good(mk)>>), Arr(<<e>>), Absent, Absent, Absent)} :
                e \in UpdateVariants(mk) \cup UpdateAtoms(mk)}
    \cup UNION {{Ops(Absent, Absent, Arr(<<e>>), Absent, Absent),
                 Ops(Arr(<<Good(mk)>>), Absent, Arr(<<e>>), Absent, Absent)} :
                e \in DeleteVariants \cup DeleteAtoms}
    \cup UNION {{Ops(Absent, Absent, Absent, Arr(<<e>>), Absent),
                 Ops(Arr(<<Good(mk)>>), Absent, Absent, Arr(<<e>>), Absent)} :
                e \in UpsertVariants(mk) \cup UpsertAtoms(mk)}
    \cup UNION {{Ops(Absent, Absent, Absent, Absent, Arr(<<e>>)),
                 Ops(Arr(<<Good(mk)>>), Absent, Absent, Absent, Arr(<<e>>))} :
                e \in BudgetDateVariants(mk) \cup BudgetDateAtoms(mk)}

\* one ops field that is not an array, alone or beside a well-formed upsert
NonArrayOps(mk) ==
    LET b == Arr(<<Budget(JStr(mk \o "-05"), JNum(5))>>) IN
    UNION {{Ops(NotAnArray(v), Absent, Absent, Absent, Absent),
            Ops(NotAnArray(v), Absent, Absent, b, Absent),
            Ops(Absent, NotAnArray(v), Absent, b, Absent),
            Ops(Absent, Absent, NotAnArray(v), b, Absent),
            Ops(Arr(<<Good(mk)>>), Absent, Absent, NotAnArray(v), Absent),
            Ops(Absent, Absent, Absent, b, NotAnArray(v))} : v \in NonArrays}

\* a well-formed save with one field of the envelope varied
EnvelopeVariants(mk, ops) ==
    LET good == Raw(JStr(mk), JNum(0), ops) IN
    {[good EXCEPT !.parses = FALSE]}
    \cup {[good EXCEPT !.v = x] : x \in {JNull, JStr("x"), JNum(1)}}
    \cup {[good EXCEPT !.month_key = x] :
            x \in {JStr("2026-13"), JStr("2026-2"), JStr("202602"), JNum(202602), JUndef}}
    \cup {[good EXCEPT !.expected_version = x] :
            x \in {JNum(-1), JHalf(1), JStr("0"), JUndef}}
    \cup {[good EXCEPT !.ops = [ops EXCEPT !.v = x]] : x \in {JUndef, JNull, JStr("x")}}
    \cup {[good EXCEPT !.ops = [NoOps EXCEPT !.v = JArr]]}

\* the saves of the validation model: <<user_id, raw body>>
SavesV ==
    UNION {{<<U1, Raw(JStr(mk), JNum(ev), ops)>> :
              ev \in {0, 1}, ops \in VariantOps(mk) \cup NonArrayOps(mk) \cup EmptyOps}
           \cup {<<U1, raw>> :
                   raw \in EnvelopeVariants(mk, Ops(Arr(<<Good(mk)>>), Absent, Absent,
                                                    Absent, Absent))}
           : mk \in VMonths}

-----------------------------------------------------------------------------
(* auth.ts and the worker entry of index.ts                                *)

\* /^u_[0-9a-f]{32}$/.test(id)
USER_ID_RE(id) ==
    /\ Len(id) = 34
    /\ SubSeq(id, 1, 2) = "u_"
    /\ \A i \in 3..34 : Ch(id, i) \in Digits \cup {"a", "b", "c", "d", "e", "f"}

isValidUserId(id) == USER_ID_RE(id)

\* s.trim(), on the blanks of the model's headers
RECURSIVE TrimStart(_)
TrimStart(s) ==
    IF Len(s) > 0 /\ Ch(s, 1) = " " THEN TrimStart(SubSeq(s, 2, Len(s))) ELSE s

RECURSIVE TrimEnd(_)
TrimEnd(s) ==
    IF Len(s) > 0 /\ Ch(s, Len(s)) = " " THEN TrimEnd(SubSeq(s, 1, Len(s) - 1)) ELSE s

Trim(s) == TrimEnd(TrimStart(s))

StartsWith(s, prefix) == Len(s) >= Len(prefix) /\ SubSeq(s, 1, Len(prefix)) = prefix

\* request.headers.get(name): null when the header is absent
NoHeader == [present |-> FALSE, text |-> ""]
Header(text) == [present |-> TRUE, text |-> text]

\* the outcomes of getAuthUserId: the user id, a thrown AuthError, or another
\* exception
Authenticated(id) ==
    [ok |-> TRUE, authError |-> FALSE, status |-> 0, message |-> "", user_id |-> id]
AuthError(status, message) ==
    [ok |-> FALSE, authError |-> TRUE, status |-> status, message |-> message,
     user_id |-> ""]
OtherError ==
    [ok |-> FALSE, authError |-> FALSE, status |-> 0, message |-> "", user_id |-> ""]

\* Math.floor(Date.now() / 1000) at the time of the request
NowSeconds == 1770870000

SECRET == "s3cret"

\* the tokens of the model: what signed the payload, whether the signature
\* and the payload decode, and the payload's exp (0: none) and sub
Tokens ==
    ("p1.sig" :> [signedWith |-> SECRET, sigDecodes |-> TRUE, parses |-> TRUE,
                  exp |-> NowSeconds + 3600, sub |-> JStr(U1)])
    @@ ("p1.forged" :> [signedWith |-> "other", sigDecodes |-> TRUE, parses |-> TRUE,
                        exp |-> NowSeconds + 3600, sub |-> JStr(U1)])
    @@ ("p1.%%%" :> [signedWith |-> "", sigDecodes |-> FALSE, parses |-> TRUE,
                     exp |-> NowSeconds + 3600, sub |-> JStr(U1)])
    @@ ("pold.sig" :> [signedWith |-> SECRET, sigDecodes |-> TRUE, parses |-> TRUE,
                       exp |-> NowSeconds - 1, sub |-> JStr(U1)])
    @@ ("pnoexp.sig" :> [signedWith |-> SECRET, sigDecodes |-> TRUE, parses |-> TRUE,
                         exp |-> 0, sub |-> JStr(U2)])
    @@ ("pjunk.sig" :> [signedWith |-> SECRET, sigDecodes |-> TRUE, parses |-> FALSE,
                        exp |-> 0, sub |-> JUndef])
    @@ ("pnosub.sig" :> [signedWith |-> SECRET, sigDecodes |-> TRUE, parses |-> TRUE,
                         exp |-> 0, sub |-> JUndef])
    @@ ("padmin.sig" :> [signedWith |-> SECRET, sigDecodes |-> TRUE, parses |-> TRUE,
                         exp |-> 0, sub |-> JStr("admin")])

HasDot(token) == \E i \in 1..Len(token) : Ch(token, i) = "."

verifyToken(token, secret) ==
    IF ~HasDot(token) THEN AuthError(400, "Bad Request")
    ELSE IF token \notin DOMAIN Tokens THEN AuthError(401, "Unauthorized")
    ELSE LET t == Tokens[token] IN
         IF ~t.sigDecodes THEN OtherError
         ELSE IF t.signedWith # secret THEN AuthError(401, "Unauthorized")
         ELSE IF ~t.parses THEN AuthError(400, "Bad Request")
         ELSE IF t.exp # 0 /\ t.exp < NowSeconds THEN AuthError(401, "Unauthorized")
         ELSE IF ~Truthy(t.sub) \/ TypeOf(t.sub) # "string" \/ ~isValidUserId(t.sub.s)
         THEN AuthError(400, "Bad Request")
         ELSE Authenticated(t.sub.s)

\* an authentication that trusts X-Debug-User whenever the header is there
getAuthUserIdDebugAnywhere(request, env) ==
    IF request.debugUser.present /\ isValidUserId(Trim(request.debugUser.text))
    THEN Authenticated(Trim(request.debugUser.text))
    ELSE IF \/ ~request.authorization.present
            \/ ~StartsWith(request.authorization.text, "Bearer ")
            \/ Len(request.authorization.text) = 7
            \/ env.AUTH_SECRET = ""
    THEN AuthError(401, "Unauthorized")
    ELSE verifyToken(SubSeq(request.authorization.text, 8,
                            Len(request.authorization.text)), env.AUTH_SECRET)

\* request: [method, pathname, month_key, debugUser, authorization];
\* env: [DEV_MODE, AUTH_SECRET]
getAuthUserId(request, env) ==
    IF env.DEV_MODE # ""
    THEN IF ~request.debugUser.present \/ Trim(request.debugUser.text) = ""
         THEN AuthError(401, "Unauthorized")
         ELSE IF ~isValidUserId(Trim(request.debugUser.text))
         THEN AuthError(400, "Bad Request")
         ELSE Authenticated(Trim(request.debugUser.text))
    ELSE IF \/ ~request.authorization.present
            \/ request.authorization.text = ""
            \/ ~StartsWith(request.authorization.text, "Bearer ")
    THEN AuthError(401, "Unauthorized")
    ELSE LET token == SubSeq(request.authorization.text, 8,
                             Len(request.authorization.text))
         IN
         IF token = "" THEN AuthError(401, "Unauthorized")
         ELSE IF env.AUTH_SECRET = "" THEN AuthError(401, "Unauthorized")
         ELSE verifyToken(token, env.AUTH_SECRET)

\* what fetch answers: the status, the error text of errorResponse, the
\* handler the request was given to, the user id it was given and the month
\* of the body (null: the body holds no month row)
NoHttpResponse ==
    [status |-> 0, error |-> "", handler |-> "", user_id |-> "",
     month |-> [null |-> TRUE, row |-> NewMonthRow]]

HttpError(status, message) == [NoHttpResponse EXCEPT !.status = status, !.error = message]

\* validateMonthKey(url): the month_key of the query string
validateMonthKey(request) ==
    IF \/ ~request.month_key.present
       \/ request.month_key.text = ""
       \/ ~MONTH_KEY_RE(request.month_key.text)
    THEN Err("month_key must be in YYYY-MM format.", "")
    ELSE Ok(request.month_key.text)

\* a read that answers an absent month with a fresh month row
handleGetMonthlyDefaultRow(user_id, month_key) ==
    [NoHttpResponse EXCEPT !.status = 200, !.handler = "handleGetMonthly",
                           !.user_id = user_id,
                           !.month = [null |-> FALSE, row |-> NewMonthRow]]

\* handleGetMonthly reads four tables with SELECT and answers 200 with what it
\* read; month: monthResult ?? null
handleGetMonthly(user_id, month_key) ==
    [NoHttpResponse EXCEPT
        !.status = 200, !.handler = "handleGetMonthly", !.user_id = user_id,
        !.month = IF <<user_id, month_key>> \in DOMAIN months
                  THEN [null |-> FALSE, row |-> months[<<user_id, month_key>>]]
                  ELSE [null |-> TRUE, row |-> NewMonthRow]]

\* export default { fetch }
fetch(request, env) ==
    LET auth == getAuthUserId(request, env) IN
    IF ~auth.ok
    THEN IF auth.authError THEN HttpError(auth.status, auth.message)
         ELSE HttpError(500, "Internal Server Error")
    ELSE IF request.pathname = "/api/monthly" /\ request.method = "GET"
    THEN LET month_key == validateMonthKey(request) IN
         IF ~month_key.ok THEN HttpError(400, month_key.err)
         ELSE handleGetMonthly(auth.user_id, month_key.val)
    ELSE HttpError(404, "Not found.")

\* the requests of the routing model, each with the environment that reads
\* its header: development mode reads X-Debug-User, production reads
\* Authorization, with and without AUTH_SECRET
Calls ==
    LET Methods == {"GET", "POST", "PUT", "DELETE"}
        Pathnames == {"/api/monthly", "/api/monthly/", "/api/entries", "/"}
        DebugUserHeaders ==
            {NoHeader, Header(""), Header("  "), Header(U1), Header(" " \o U2 \o " "),
             Header("u_A1B2C3D4E5F60718293A4B5C6D7E8F90"), Header("admin")}
        AuthorizationHeaders ==
            {NoHeader, Header("Basic p1.sig"), Header("Bearer "), Header("Bearer nodot")}
            \cup {Header("Bearer " \o t) : t \in DOMAIN Tokens}
        DevEnv == [DEV_MODE |-> "1", AUTH_SECRET |-> ""]
        ProdEnv == [DEV_MODE |-> "", AUTH_SECRET |-> SECRET]
        NoSecretEnv == [DEV_MODE |-> "", AUTH_SECRET |-> ""]
    IN
    {<<[method |-> m, pathname |-> p, month_key |-> q, debugUser |-> d,
        authorization |-> NoHeader], DevEnv>> :
        m \in Methods, p \in Pathnames, q \in {NoHeader, Header(MK1), Header("2026-2")},
        d \in DebugUserHeaders}
    \cup {<<[method |-> m, pathname |-> p, month_key |-> q, debugUser |-> Header(U1),
             authorization |-> a], e>> :
            m \in Methods, p \in Pathnames, q \in {NoHeader, Header(MK1)},
            a \in AuthorizationHeaders, e \in {ProdEnv, NoSecretEnv}}

IdleHttp ==
    [pc |-> "idle",
     request |-> [method |-> "", pathname |-> "", month_key |-> NoHeader,
                  debugUser |-> NoHeader, authorization |-> NoHeader],
     env |-> [DEV_MODE |-> "", AUTH_SECRET |-> ""],
     response |-> NoHttpResponse]

-----------------------------------------------------------------------------
(* State machine                                                           *)

IdleReq ==
    [pc |-> "idle", user_id |-> "", raw |-> EmptyRaw, work |-> NoWork,
     resp |-> NoResponse, nLookup |-> 0, nBatch |-> 0, aloneOk |-> FALSE,
     resub |-> FALSE, faulted |-> FALSE]

MonthKeysOfModel == {MK1, MK2}

Keys == users \X MonthKeysOfModel

\* the version a reader of the month sees: 0 while the row is absent
StoredVersionIn(ms, user_id, month_key) ==
    IF <<user_id, month_key>> \in DOMAIN ms THEN ms[<<user_id, month_key>>].version ELSE 0

StoredVersion(user_id, month_key) == StoredVersionIn(months, user_id, month_key)

\* a month row provisioned with a budget, as in the read path's example
SeededMonths ==
    (<<U1, MK1>> :> [version |-> 0, monthly_budget |-> SqlInt(200000),
                     cutoff_type |-> "calendar", cutoff_day |-> SqlNull])

EmptyTable == [k \in {} |-> 0]

Init ==
    /\ now = Clock
    /\ months = EmptyTable
    /\ entries = EmptyTable
    /\ daily_budgets = EmptyTable
    /\ reqs = [s \in Slots |-> IdleReq]
    /\ uuids = 0
    /\ okCount = [k \in Keys |-> 0]
    /\ editable = {}
    /\ http = IdleHttp

\* history: the batch of this work, run now and alone, would commit and bump
WouldSucceed(user_id, w) ==
    LET res == DbBatch([months |-> months, entries |-> entries,
                        daily_budgets |-> daily_budgets], BuildBatch(user_id, w))
    IN ~res.throws /\ res.changes[2] = 1

\* a request arrives and the handler runs to its first storage call or to its
\* response (lines 183-269)
Receive(s, user_id, raw) ==
    /\ reqs[s].pc = "idle"
    /\ \A q \in Slots : q < s => reqs[q].pc # "idle"
    /\ LET p == Preflight(raw, now, uuids) IN
       /\ reqs' = [reqs EXCEPT ![s] =
             [pc |-> p.next, user_id |-> user_id, raw |-> raw, work |-> p.work,
              resp |-> p.resp, nLookup |-> 0, nBatch |-> 0,
              aloneOk |-> p.next # "done" /\ WouldSucceed(user_id, p.work),
              faulted |-> FALSE,
              resub |-> \E q \in Slots :
                           /\ reqs[q].pc = "done"
                           /\ reqs[q].nBatch = 1
                           /\ reqs[q].resp.status = 200
                           /\ reqs[q].user_id = user_id
                           /\ reqs[q].raw = raw]]
       /\ uuids' = uuids + p.drawn
    /\ UNCHANGED <<http, now, months, entries, daily_budgets, okCount, editable>>

\* the category query returns and the handler checks the referenced ids
\* (lines 270-281)
CategoryLookup(s) ==
    /\ reqs[s].pc = "lookup"
    /\ LET r == reqs[s]
           cids == CategoryIdSeq(r.work)
           bad == FirstInvalid(cids, validCatIds(r.user_id))
       IN
       reqs' = [reqs EXCEPT ![s] =
           IF bad # 0
           THEN [r EXCEPT !.pc = "done", !.nLookup = @ + 1,
                          !.resp = errorResponse(400, "Invalid category_id: " \o cids[bad])]
           ELSE [r EXCEPT !.pc = "batch", !.nLookup = @ + 1]]
    /\ UNCHANGED <<http, now, months, entries, daily_budgets, uuids, okCount, editable>>

\* the batch is built, runs in the database and the handler answers
\* (lines 283-373)
ExecBatch(s) ==
    /\ reqs[s].pc = "batch"
    /\ LET r == reqs[s]
           db == [months |-> months, entries |-> entries,
                  daily_budgets |-> daily_budgets]
           res == DbBatch(db, BuildBatch(r.user_id, r.work))
           resp == IF res.throws THEN Thrown ELSE AfterBatch(r.work, res.changes)
       IN
       /\ months' = res.db.months
       /\ entries' = res.db.entries
       /\ daily_budgets' = res.db.daily_budgets
       /\ reqs' = [reqs EXCEPT ![s] = [r EXCEPT !.pc = "done", !.nBatch = @ + 1,
                                                !.resp = resp,
                                                !.faulted = res.throws]]
       /\ okCount' = IF resp.status = 200
                     THEN [okCount EXCEPT ![<<r.user_id, r.work.month_key>>] = @ + 1]
                     ELSE okCount
    /\ UNCHANGED <<http, now, uuids, editable>>

Next ==
    \/ \E s \in Slots, sv \in Saves : Receive(s, sv[1], sv[2])
    \/ \E s \in Slots : CategoryLookup(s)
    \/ \E s \in Slots : ExecBatch(s)

Spec == Init /\ [][Next]_vars

\* the validation model: one request, drawn from SavesV, against a month that
\* has no row or a provisioned one
InitV ==
    /\ now = Clock
    /\ months \in {EmptyTable, SeededMonths}
    /\ entries = EmptyTable
    /\ daily_budgets = EmptyTable
    /\ reqs = [s \in Slots |-> IdleReq]
    /\ uuids = 0
    /\ okCount = [k \in Keys |-> 0]
    /\ editable = {}
    /\ http = IdleHttp

NextV ==
    \/ \E sv \in SavesV : Receive(1, sv[1], sv[2])
    \/ CategoryLookup(1)
    \/ ExecBatch(1)

SpecV == InitV /\ [][NextV]_vars

\* the clock model: getEditableMonthKeys on every day of the years around the
\* clock's
FirstYear == 2024
LastYear == 2028

Dates ==
    {t \in [y : FirstYear..LastYear, m : 1..12, d : 1..31] : t.d <= DaysInMonth(t.y, t.m)}

InitDate ==
    /\ now \in Dates
    /\ months = EmptyTable
    /\ entries = EmptyTable
    /\ daily_budgets = EmptyTable
    /\ reqs = [s \in Slots |-> IdleReq]
    /\ uuids = 0
    /\ okCount = [k \in Keys |-> 0]
    /\ editable = {}
    /\ http = IdleHttp

ComputeEditable ==
    /\ editable = {}
    /\ editable' = getEditableMonthKeys(now)
    /\ UNCHANGED <<http, now, months, entries, daily_budgets, reqs, uuids, okCount>>

NextDate == ComputeEditable

SpecDate == InitDate /\ [][NextDate]_vars


\* the category query throws: the await of lines 271-274 rejects
LookupFault(s) ==
    /\ reqs[s].pc = "lookup"
    /\ reqs' = [reqs EXCEPT ![s] = [@ EXCEPT !.pc = "done", !.nLookup = @ + 1,
                                             !.resp = Thrown,
                                             !.faulted = TRUE]]
    /\ UNCHANGED <<http, now, months, entries, daily_budgets, uuids, okCount, editable>>

\* db.batch throws without having committed: the await of line 348 rejects
BatchFault(s) ==
    /\ reqs[s].pc = "batch"
    /\ reqs' = [reqs EXCEPT ![s] = [@ EXCEPT !.pc = "done", !.nBatch = @ + 1,
                                             !.resp = Thrown,
                                             !.faulted = TRUE]]
    /\ UNCHANGED <<http, now, months, entries, daily_budgets, uuids, okCount, editable>>

\* the fault model: one request, whose storage calls may throw
NextF ==
    \/ \E sv \in Saves : Receive(1, sv[1], sv[2])
    \/ CategoryLookup(1)
    \/ ExecBatch(1)
    \/ LookupFault(1)
    \/ BatchFault(1)

SpecF == Init /\ [][NextF]_vars

\* the routing model: one request to the worker
Fetch(request, env) ==
    /\ http.pc = "idle"
    /\ http' = [pc |-> "done", request |-> request, env |-> env,
                response |-> fetch(request, env)]
    /\ UNCHANGED <<now, months, entries, daily_budgets, reqs, uuids, okCount, editable>>

NextFetch == \E c \in Calls : Fetch(c[1], c[2])

SpecFetch == Init /\ [][NextFetch]_vars

\* the read model: one save of daily budgets and one request to the worker,
\* in either order
NextRead ==
    \/ \E sv \in Saves :
          /\ sv[2].ops.create_entries.items = <<>>
          /\ sv[2].ops.update_entries.items = <<>>
          /\ sv[2].ops.delete_entry_ids.items = <<>>
          /\ Receive(1, sv[1], sv[2])
    \/ ExecBatch(1)
    \/ \E c \in Calls : Fetch(c[1], c[2])

SpecRead == Init /\ [][NextRead]_vars

\* the tenancy model: three (user, month) pairs that each hold a month row, an
\* entry and a daily-budget override; one request by one of them, whose
\* operations name its own rows and the others'
Tenants == {<<U1, MK1>>, <<U1, MK2>>, <<U2, MK1>>}

TenantEntryId == (<<U1, MK1>> :> "e1") @@ (<<U2, MK1>> :> "e2") @@ (<<U1, MK2>> :> "e3")

TenantCategory(user_id) == IF user_id = U1 THEN "cat-001" ELSE "cat-002"

\* each month row provisioned with a budget and saved once
TenantMonths ==
    [k \in Tenants |-> [SeededMonths[<<U1, MK1>>] EXCEPT !.version = 1]]

TenantEntries ==
    [id \in {"e1", "e2", "e3"} |->
        LET k == CHOOSE t \in Tenants : TenantEntryId[t] = id IN
        [user_id |-> k[1], month_key |-> k[2], date |-> k[2] \o "-05",
         type |-> "expense", amount |-> 500, category_id |-> TenantCategory(k[1]),
         memo |-> JNull, payment_method |-> JNull]]

TenantBudgets == [k \in {<<t[1], t[2], t[2] \o "-05">> : t \in Tenants} |-> 3]

\* the operation sets of a request by user_id on mk: one or two operations on
\* each of the three entry ids, and on the budget date; a create and an upsert
\* that the same request deletes; an update and a deletion of an id no entry
\* has
TenantOps(user_id, mk) ==
    LET cat == TenantCategory(user_id)
        upd(id) == [GoodUpdate(mk, id) EXCEPT !.category_id = JStr(cat)]
    IN
    UNION {{Ops(Absent, Arr(<<upd(id)>>), Absent, Absent, Absent),
            Ops(Absent, Absent, Arr(<<JStr(id)>>), Absent, Absent),
            Ops(Arr(<<GoodCreate(mk, JStr(id), cat)>>), Absent, Absent, Absent, Absent),
            Ops(Absent, Arr(<<upd(id)>>), Arr(<<JStr("e1"), JStr("e2")>>), Absent, Absent),
            Ops(Arr(<<GoodCreate(mk, JUndef, cat)>>), Arr(<<upd(id)>>), Absent,
                Arr(<<Budget(JStr(mk \o "-05"), JNum(7))>>), Absent)} :
           id \in {"e1", "e2", "e3"}}
    \cup {Ops(Arr(<<GoodCreate(mk, JStr("e4"), cat)>>), Absent, Arr(<<JStr("e4")>>),
              Absent, Absent),
          Ops(Absent, Arr(<<upd("e4")>>), Absent, Absent, Absent),
          Ops(Absent, Absent, Arr(<<JStr("e4")>>), Absent, Absent),
          Ops(Absent, Absent, Absent, Arr(<<Budget(JStr(mk \o "-05"), JNum(7))>>),
              Arr(<<JStr(mk \o "-05")>>)),
          Ops(Absent, Absent, Absent, Arr(<<Budget(JStr(mk \o "-05"), JNum(7))>>), Absent),
          Ops(Absent, Absent, Absent, Absent, Arr(<<JStr(mk \o "-05")>>)),
          Ops(Absent, Absent, Arr(<<JStr("e1"), JStr("e2"), JStr("e3")>>), Absent,
              Arr(<<JStr(mk \o "-05")>>))}

SavesX ==
    UNION {{<<k[1], Raw(JStr(k[2]), JNum(ev), ops)>> :
              ev \in {0, 1}, ops \in TenantOps(k[1], k[2])} : k \in Tenants}

InitX ==
    /\ now = Clock
    /\ months = TenantMonths
    /\ entries = TenantEntries
    /\ daily_budgets = TenantBudgets
    /\ reqs = [s \in Slots |-> IdleReq]
    /\ uuids = 0
    /\ okCount = [k \in Keys |-> 0]
    /\ editable = {}
    /\ http = IdleHttp

NextX ==
    \/ \E sv \in SavesX : Receive(1, sv[1], sv[2])
    \/ CategoryLookup(1)
    \/ ExecBatch(1)

SpecX == InitX /\ [][NextX]_vars

-----------------------------------------------------------------------------
(* Properties of the save path                                             *)

\* the step in which the batch of slot s runs and the handler answers
BatchStep(s) == reqs[s].pc = "batch" /\ reqs'[s].pc = "done"

\* the step in which slot s gets its answer, from whichever point
Answered(s) == reqs[s].pc # "done" /\ reqs'[s].pc = "done"

\* some statement of the batch of slot s fails on the storage as it is now
BatchFailsNow(s) ==
    ~RunFrom([months |-> months, entries |-> entries, daily_budgets |-> daily_budgets],
             BuildBatch(reqs[s].user_id, reqs[s].work), 1, <<>>).ok

\* C1: a save that is answered with the conflict error (409) leaves storage
\* exactly as it was: no month row is created, no version changes, no entry
\* row and no daily-budget row is inserted, updated or deleted.
C1_ConflictLeavesStorageUntouched ==
    [][\A s \in Slots :
         (BatchStep(s) /\ reqs'[s].resp.status = 409) => UNCHANGED storage]_vars

\* C2: of two saves on the same (user, month) carrying the same
\* expected_version, both received while that is the stored version and each
\* acceptable had it run alone, exactly one is answered with success and the
\* other with the conflict error, and the stored version ends one higher.
C2_ExactlyOneWins ==
    \A s, q \in Slots :
        ( /\ s # q
          /\ reqs[s].pc = "done" /\ reqs[q].pc = "done"
          /\ reqs[s].nBatch = 1 /\ reqs[q].nBatch = 1
          /\ reqs[s].aloneOk /\ reqs[q].aloneOk
          /\ reqs[s].user_id = reqs[q].user_id
          /\ reqs[s].work.month_key = reqs[q].work.month_key
          /\ reqs[s].work.expected_version = reqs[q].work.expected_version )
        => /\ {reqs[s].resp.status, reqs[q].resp.status} = {200, 409}
           /\ StoredVersion(reqs[s].user_id, reqs[s].work.month_key)
                = reqs[s].work.expected_version + 1

\* C3: the same body with the same expected_version, sent again after it was
\* answered with success, is answered with the conflict error and changes
\* nothing in storage; in particular no further entry row appears.
C3_ResubmissionChangesNothing ==
    [][\A s \in Slots :
         (BatchStep(s) /\ reqs[s].resub)
         => (reqs'[s].resp.status = 409 /\ UNCHANGED storage)]_vars

\* C4: when a statement of the batch fails (an entry_id that already exists,
\* the same entry_id twice in one request), nothing of that batch takes effect:
\* no month row, no version step, no entry or daily-budget change, and the save
\* is not answered with success.
C4_FailedBatchAppliesNothing ==
    [][\A s \in Slots :
         (BatchStep(s) /\ BatchFailsNow(s))
         => (UNCHANGED <<storage, okCount>> /\ reqs'[s].resp.status # 200)]_vars

\* a request with the same new entry_id twice, answered on an empty database
C4_Witness ==
    \E s \in Slots :
        /\ reqs[s].pc = "done"
        /\ reqs[s].nBatch = 1
        /\ reqs[s].resp.thrown
        /\ Len(reqs[s].work.createEntries) = 2
        /\ reqs[s].work.createEntries[1].entry_id = reqs[s].work.createEntries[2].entry_id
        /\ months = EmptyTable /\ entries = EmptyTable /\ daily_budgets = EmptyTable

\* C5: the version of a (user, month), 0 while it has no row, never decreases;
\* it moves only in the step that answers a non-empty save with success, then
\* by exactly one; a rejected save and a no-op save leave it alone; so it
\* always equals the number of successful non-empty saves on that month.
C5_VersionCountsSuccessfulSaves ==
    /\ [](\A k \in Keys : StoredVersion(k[1], k[2]) = okCount[k])
    /\ [][\A k \in Keys :
            LET v == StoredVersionIn(months, k[1], k[2])
                w == StoredVersionIn(months', k[1], k[2])
            IN \/ w = v
               \/ /\ w = v + 1
                  /\ \E s \in Slots :
                        /\ BatchStep(s)
                        /\ reqs'[s].resp.status = 200
                        /\ reqs[s].user_id = k[1]
                        /\ reqs[s].work.month_key = k[2]]_vars
    /\ [][\A s \in Slots :
            (Answered(s) /\ (reqs'[s].resp.status # 200 \/ reqs'[s].nBatch = 0))
            => \A k \in Keys : StoredVersionIn(months', k[1], k[2])
                                 = StoredVersionIn(months, k[1], k[2])]_vars

\* one save answered with success and one with the conflict error, version 1
C5_Witness ==
    \E s, q \in Slots :
        /\ reqs[s].pc = "done" /\ reqs[s].resp.status = 200 /\ reqs[s].nBatch = 1
        /\ reqs[q].pc = "done" /\ reqs[q].resp.status = 409
        /\ StoredVersion(U1, MK1) = 1
        /\ okCount[<<U1, MK1>>] = 1

\* the calendar counted month by month, without Date
PrevMonth(ym) ==
    IF ym.m = 1 THEN [y |-> ym.y - 1, m |-> 12] ELSE [y |-> ym.y, m |-> ym.m - 1]

RECURSIVE Back(_, _)
Back(ym, i) == IF i = 0 THEN ym ELSE Back(PrevMonth(ym), i - 1)

TwoDigit ==
    <<"01", "02", "03", "04", "05", "06", "07", "08", "09", "10", "11", "12">>

KeyText(ym) == ToString(ym.y) \o "-" \o TwoDigit[ym.m]

\* the month of t and the five before it
SixMonths(t) == {KeyText(Back([y |-> t.y, m |-> t.m], i)) : i \in 0..5}

\* the twelve months before those six
OlderMonths(t) == {KeyText(Back([y |-> t.y, m |-> t.m], i)) : i \in 6..17}

\* an operation list that is absent or an empty array
EmptyOrAbsent(l) == l.v = JUndef \/ (l.v = JArr /\ l.items = <<>>)

AllListsEmptyOrAbsent(ops) ==
    /\ EmptyOrAbsent(ops.create_entries)
    /\ EmptyOrAbsent(ops.update_entries)
    /\ EmptyOrAbsent(ops.delete_entry_ids)
    /\ EmptyOrAbsent(ops.upsert_daily_budgets)
    /\ EmptyOrAbsent(ops.delete_daily_budget_dates)

\* the body parsed and its month_key, expected_version and ops are well-formed
EnvelopeOk(raw) == raw.parses /\ validateBody(raw).ok

\* storage as the validation model starts it
StorageUntouchedV ==
    /\ months \in {EmptyTable, SeededMonths}
    /\ entries = EmptyTable
    /\ daily_budgets = EmptyTable

\* C6: a well-formed, in-window request whose five lists are all empty or
\* absent is answered at once with success, new_version = expected_version and
\* all five counts zero, without a category lookup and without a batch, whatever
\* version is stored and whether or not the month has a row.
C6_NoOpSaveTouchesNothing ==
    \A s \in Slots :
        LET r == reqs[s] IN
        ( /\ r.pc # "idle"
          /\ EnvelopeOk(r.raw)
          /\ r.raw.month_key.s \in SixMonths(now)
          /\ AllListsEmptyOrAbsent(r.raw.ops) )
        => /\ r.pc = "done"
           /\ r.resp.status = 200
           /\ r.resp.ok
           /\ r.resp.month_key = r.raw.month_key.s
           /\ r.resp.new_version * 2 = r.raw.expected_version.h
           /\ r.resp.applied = NoApplied
           /\ r.nLookup = 0
           /\ r.nBatch = 0

\* a no-op save that expects version 1 of a month that has no row
C6_Witness ==
    \E s \in Slots :
        /\ reqs[s].pc = "done"
        /\ AllListsEmptyOrAbsent(reqs[s].raw.ops)
        /\ reqs[s].raw.expected_version = JNum(1)
        /\ reqs[s].resp.status = 200
        /\ reqs[s].resp.new_version = 1
        /\ months = EmptyTable

\* the categories of a user, read off the table
OwnCategories(user_id) == {c \in DOMAIN categories : categories[c] = user_id}

\* the category_id values the creates and updates of a body carry
ReferencedCategories(ops) ==
    {ops.create_entries.items[i].category_id : i \in DOMAIN ops.create_entries.items}
    \cup {ops.update_entries.items[i].category_id : i \in DOMAIN ops.update_entries.items}

RefersToForeignCategory(r) ==
    /\ EnvelopeOk(r.raw)
    /\ \E c \in ReferencedCategories(r.raw.ops) :
          c.t = "string" /\ c.s \notin OwnCategories(r.user_id)

\* C7: a request with a create or update whose category_id is not one of the
\* requesting user's categories (unknown, or another user's) never reaches the
\* batch; it is answered 400 or 403, after the lookup always 400, and no month,
\* entry or daily-budget row is created or changed.
C7_ForeignCategoryRejected ==
    \A s \in Slots :
        LET r == reqs[s] IN
        (r.pc # "idle" /\ RefersToForeignCategory(r))
        => /\ r.pc # "batch"
           /\ r.nBatch = 0
           /\ r.pc = "done" => r.resp.status \in {400, 403}
           /\ r.nLookup = 1 => (r.pc = "done" /\ r.resp.status = 400)
           /\ StorageUntouchedV

\* a create on another user's category, turned down by the lookup
C7_Witness ==
    \E s \in Slots :
        /\ reqs[s].pc = "done"
        /\ reqs[s].nLookup = 1
        /\ reqs[s].nBatch = 0
        /\ reqs[s].resp.status = 400
        /\ reqs[s].resp.error = "Invalid category_id: cat-002"
        /\ categories["cat-002"] # reqs[s].user_id

\* a memo that is present and neither null nor a string
MemoIllTyped(e) == e.memo.t \notin {"undefined", "null", "string"}

\* some element of one of the five lists breaks a rule of the request format
HasMalformedElement(raw) ==
    LET mk == raw.month_key.s
        ops == raw.ops
    IN
    \/ \E i \in DOMAIN ops.create_entries.items :
          \/ ~validateCreateEntry(ops.create_entries.items[i], mk).ok
          \/ MemoIllTyped(ops.create_entries.items[i])
    \/ \E i \in DOMAIN ops.update_entries.items :
          \/ ~validateUpdateEntry(ops.update_entries.items[i], mk).ok
          \/ MemoIllTyped(ops.update_entries.items[i])
    \/ \E i \in DOMAIN ops.delete_entry_ids.items :
          ~validateDeleteEntryId(ops.delete_entry_ids.items[i]).ok
    \/ \E i \in DOMAIN ops.upsert_daily_budgets.items :
          ~validateUpsertDailyBudget(ops.upsert_daily_budgets.items[i], mk).ok
    \/ \E i \in DOMAIN ops.delete_daily_budget_dates.items :
          ~validateDeleteDailyBudgetDate(ops.delete_daily_budget_dates.items[i], mk).ok

\* C8: a request with a malformed element in any of its five lists is answered
\* with a client-fault status, without the category lookup and without the
\* batch, and none of its well-formed operations is applied.
C8_MalformedElementRejectsAll ==
    \A s \in Slots :
        LET r == reqs[s] IN
        (r.pc = "done" /\ EnvelopeOk(r.raw) /\ HasMalformedElement(r.raw))
        => /\ r.resp.status \in {400, 403}
           /\ r.nLookup = 0
           /\ r.nBatch = 0
           /\ StorageUntouchedV

\* the storage calls a request has made
NoStorageAccess(r) == r.nLookup = 0 /\ r.nBatch = 0

\* C9 as stated: a request whose month_key is well-formed but outside the
\* editable set is answered 403 before any storage access.
C9_WellFormedKeyOutsideWindow ==
    \A s \in Slots :
        LET r == reqs[s] IN
        ( /\ r.pc # "idle"
          /\ r.raw.parses
          /\ r.raw.v = JObj
          /\ r.raw.month_key.t = "string"
          /\ MONTH_KEY_RE(r.raw.month_key.s)
          /\ r.raw.month_key.s \notin SixMonths(now) )
        => (r.pc = "done" /\ r.resp.status = 403 /\ NoStorageAccess(r))

\* C9: a request whose body passes validateBody (month_key, expected_version
\* and ops well-formed) and whose month_key is outside the editable set is
\* answered 403 "This month is read-only." before any storage access, whatever
\* its lists hold, and storage is unchanged.
C9_ValidBodyOutsideWindow ==
    \A s \in Slots :
        LET r == reqs[s] IN
        ( /\ r.pc # "idle"
          /\ EnvelopeOk(r.raw)
          /\ r.raw.month_key.s \notin SixMonths(now) )
        => /\ r.pc = "done"
           /\ r.resp.status = 403
           /\ r.resp.error = "This month is read-only."
           /\ NoStorageAccess(r)
           /\ StorageUntouchedV

\* a save of one entry on the month seven back from the clock's
C9_Witness ==
    \E s \in Slots :
        /\ reqs[s].pc = "done"
        /\ reqs[s].raw.month_key = JStr(OldMK)
        /\ OldMK \in OlderMonths(now)
        /\ Len(reqs[s].raw.ops.create_entries.items) > 0
        /\ reqs[s].resp.status = 403
        /\ NoStorageAccess(reqs[s])

\* C10: on every date getEditableMonthKeys returns six distinct well-formed
\* keys, those of the current month and the five before it, across a year
\* boundary and on any day of the month; no older month is among them.
C10_SixMonthWindow ==
    editable # {}
    => /\ Cardinality(editable) = 6
       /\ editable = SixMonths(now)
       /\ \A k \in editable : MONTH_KEY_RE(k)
       /\ editable \cap OlderMonths(now) = {}

\* the window computed on 31 March 2024, reaching back into 2023
C10_Witness ==
    /\ editable # {}
    /\ now = [y |-> 2024, m |-> 3, d |-> 31]
    /\ "2023-10" \in editable

\* the YYYY-MM a date text starts with
YearMonthOf(d) == SubSeq(d, 1, 7)

\* a well-shaped date of another month than mk
ForeignMonthDate(d, mk) == d.t = "string" /\ DATE_RE(d.s) /\ YearMonthOf(d.s) # mk

\* some create, update, upsert or budget deletion of the body is dated in
\* another month than the body's month_key
HasForeignMonthDate(raw) ==
    LET mk == raw.month_key.s
        ops == raw.ops
    IN
    \/ \E i \in DOMAIN ops.create_entries.items :
          ForeignMonthDate(ops.create_entries.items[i].date, mk)
    \/ \E i \in DOMAIN ops.update_entries.items :
          ForeignMonthDate(ops.update_entries.items[i].date, mk)
    \/ \E i \in DOMAIN ops.upsert_daily_budgets.items :
          ForeignMonthDate(ops.upsert_daily_budgets.items[i].date, mk)
    \/ \E i \in DOMAIN ops.delete_daily_budget_dates.items :
          ForeignMonthDate(ops.delete_daily_budget_dates.items[i], mk)

\* C11: a request with a create, update, daily-budget upsert or daily-budget
\* deletion dated in another year-month than its month_key is rejected whole
\* (400 when the month is editable, 403 otherwise), without storage access, and
\* nothing of it is stored.
C11_ForeignMonthDateRejected ==
    \A s \in Slots :
        LET r == reqs[s] IN
        (r.pc # "idle" /\ EnvelopeOk(r.raw) /\ HasForeignMonthDate(r.raw))
        => /\ r.pc = "done"
           /\ r.resp.status = IF r.raw.month_key.s \in SixMonths(now) THEN 400 ELSE 403
           /\ NoStorageAccess(r)
           /\ StorageUntouchedV

\* a well-formed create beside the deletion of a budget date of April, in a
\* request for February
C11_Witness ==
    \E s \in Slots :
        /\ reqs[s].pc = "done"
        /\ reqs[s].raw.month_key = JStr(MK1)
        /\ reqs[s].raw.ops.create_entries.items = <<Good(MK1)>>
        /\ reqs[s].raw.ops.delete_daily_budget_dates.items = <<JStr("2026-04-05")>>
        /\ reqs[s].resp.status = 400
        /\ reqs[s].resp.error = "date 2026-04-05 does not match month_key 2026-02."
        /\ StorageUntouchedV

DigitValue ==
    ("0" :> 0) @@ ("1" :> 1) @@ ("2" :> 2) @@ ("3" :> 3) @@ ("4" :> 4)
    @@ ("5" :> 5) @@ ("6" :> 6) @@ ("7" :> 7) @@ ("8" :> 8) @@ ("9" :> 9)

\* the number written at positions lo..hi of s
RECURSIVE NumberAt(_, _, _)
NumberAt(s, lo, hi) ==
    IF hi < lo THEN 0 ELSE 10 * NumberAt(s, lo, hi - 1) + DigitValue[Ch(s, hi)]

\* d names a day that exists in the calendar month mk
IsCalendarDay(d, mk) ==
    /\ Len(d) = 10
    /\ YearMonthOf(d) = mk
    /\ NumberAt(d, 9, 10) >= 1
    /\ NumberAt(d, 9, 10) <= DaysInMonth(NumberAt(d, 1, 4), NumberAt(d, 6, 7))

\* C12: every stored entry and every stored daily-budget override is dated on
\* a day that exists in its month_key's calendar month.
C12_StoredDatesAreCalendarDays ==
    /\ \A id \in DOMAIN entries :
          IsCalendarDay(entries[id].date, entries[id].month_key)
    /\ \A k \in DOMAIN daily_budgets : IsCalendarDay(k[3], k[2])

FivePaymentMethods == {"genkin", "kureka", "ginko-hikiotoshi", "QR", "sonota"}

\* the entry breaks a rule on type, amount, category_id or payment_method
BreaksEntryRules(e) ==
    \/ ~(e.type.t = "string" /\ e.type.s \in {"expense", "income"})
    \/ ~(e.amount.t = "number" /\ e.amount.h % 2 = 0 /\ e.amount.h > 0)
    \/ ~(e.category_id.t = "string" /\ e.category_id.s # "")
    \/ ~(\/ e.payment_method.t \in {"undefined", "null"}
         \/ e.payment_method.t = "string" /\ e.payment_method.s \in FivePaymentMethods)

HasRuleBreakingEntry(raw) ==
    \/ \E i \in DOMAIN raw.ops.create_entries.items :
          BreaksEntryRules(raw.ops.create_entries.items[i])
    \/ \E i \in DOMAIN raw.ops.update_entries.items :
          LET e == raw.ops.update_entries.items[i] IN
          BreaksEntryRules(e) \/ ~(e.entry_id.t = "string" /\ e.entry_id.s # "")

\* C13: a request with a create or update whose type is not expense or income,
\* whose amount is not a strictly positive integer, whose category_id is not a
\* non-empty string or whose payment_method is neither absent, null nor one of
\* the five values, or with an update without a non-empty string entry_id, is
\* rejected (400, or 403 outside the window) and mutates nothing.
C13_EntryRulesEnforced ==
    \A s \in Slots :
        LET r == reqs[s] IN
        (r.pc # "idle" /\ EnvelopeOk(r.raw) /\ HasRuleBreakingEntry(r.raw))
        => /\ r.pc = "done"
           /\ r.resp.status \in {400, 403}
           /\ r.raw.month_key.s \in SixMonths(now) => r.resp.status = 400
           /\ NoStorageAccess(r)
           /\ StorageUntouchedV

\* a create with amount 0 beside a well-formed one, turned down for the amount
C13_Witness ==
    \E s \in Slots :
        /\ reqs[s].pc = "done"
        /\ Len(reqs[s].raw.ops.create_entries.items) = 2
        /\ \E i \in 1..2 : reqs[s].raw.ops.create_entries.items[i].amount = JNum(0)
        /\ reqs[s].resp.status = 400
        /\ reqs[s].resp.error = "amount must be a positive integer."
        /\ StorageUntouchedV

HasIllTypedMemo(raw) ==
    \/ \E i \in DOMAIN raw.ops.create_entries.items :
          MemoIllTyped(raw.ops.create_entries.items[i])
    \/ \E i \in DOMAIN raw.ops.update_entries.items :
          MemoIllTyped(raw.ops.update_entries.items[i])

\* C14: a request with a create or update whose memo is present and neither
\* null nor a string is rejected by validation: it never reaches the category
\* lookup or the batch, and no entry is stored with the memo replaced.
C14_IllTypedMemoRejected ==
    \A s \in Slots :
        LET r == reqs[s] IN
        (r.pc = "done" /\ EnvelopeOk(r.raw) /\ HasIllTypedMemo(r.raw))
        => /\ r.resp.status \in {400, 403}
           /\ NoStorageAccess(r)
           /\ entries = EmptyTable

\* C18: the range policy runs after the whole body is validated: a request
\* with a malformed operation element (an entry that breaks a field rule, a
\* date of another month) is answered with the validation failure (400) even
\* when its month_key is outside the editable window; never with 403.
C18_ValidationBeforeRange ==
    \A s \in Slots :
        LET r == reqs[s] IN
        ( /\ r.pc = "done"
          /\ EnvelopeOk(r.raw)
          /\ HasRuleBreakingEntry(r.raw) \/ HasForeignMonthDate(r.raw) )
        => r.resp.status = 400

\* the (user, month) a request is about
KeyOf(r) == <<r.user_id, r.raw.month_key.s>>

RequestedCounts(raw) ==
    [created_entries |-> Len(raw.ops.create_entries.items),
     updated_entries |-> Len(raw.ops.update_entries.items),
     deleted_entries |-> Len(raw.ops.delete_entry_ids.items),
     upserted_daily_budgets |-> Len(raw.ops.upsert_daily_budgets.items),
     deleted_daily_budgets |-> Len(raw.ops.delete_daily_budget_dates.items)]

\* C16: when a non-empty save is answered with success, the guard matched the
\* month row (stored version = expected_version before the batch), new_version
\* is expected_version + 1 and is the version stored right after the batch,
\* and each applied count is the number of operations of that kind in the
\* request.
C16_SuccessReportsTheCommit ==
    [][\A s \in Slots :
         LET r == reqs[s] IN
         (BatchStep(s) /\ reqs'[s].resp.status = 200)
         => /\ reqs'[s].resp.ok
            /\ StoredVersionIn(months, r.user_id, r.raw.month_key.s) * 2
                 = r.raw.expected_version.h
            /\ reqs'[s].resp.new_version * 2 = r.raw.expected_version.h + 2
            /\ KeyOf(r) \in DOMAIN months'
            /\ months'[KeyOf(r)].version = reqs'[s].resp.new_version
            /\ reqs'[s].resp.month_key = r.raw.month_key.s
            /\ reqs'[s].resp.applied = RequestedCounts(r.raw)]_vars

\* the second successful save of a month, of two operations
C16_Witness ==
    \E s \in Slots :
        /\ reqs[s].pc = "done"
        /\ reqs[s].resp.status = 200
        /\ reqs[s].resp.new_version = 2
        /\ StoredVersion(U1, MK1) = 2
        /\ TotalOps(reqs[s].raw.ops) = 2
        /\ reqs[s].resp.applied = RequestedCounts(reqs[s].raw)

\* the rows of table t (a function on keys) that do not belong to key k, the
\* owner of a key being given by owner
ForeignRows(t, owner(_), k) == [x \in {y \in DOMAIN t : owner(y) # k} |-> t[x]]

MonthOwner(x) == x

BudgetOwner(x) == <<x[1], x[2]>>

\* C17: a save by user U for month_key M changes no month row, entry or
\* daily-budget override of another user or another month: after the batch the
\* rows that do not belong to (U, M) are the ones that were there before, with
\* the same content, whatever entry ids the request names.
C17_OtherTenantsUntouched ==
    [][\A s \in Slots :
         BatchStep(s) =>
           LET k == KeyOf(reqs[s])
               EntryOwner(id) ==
                   IF id \in DOMAIN entries
                   THEN <<entries[id].user_id, entries[id].month_key>>
                   ELSE <<entries'[id].user_id, entries'[id].month_key>>
               EntryOwnerAfter(id) == <<entries'[id].user_id, entries'[id].month_key>>
           IN
           /\ ForeignRows(months', MonthOwner, k) = ForeignRows(months, MonthOwner, k)
           /\ ForeignRows(daily_budgets', BudgetOwner, k)
                = ForeignRows(daily_budgets, BudgetOwner, k)
           /\ ForeignRows(entries', EntryOwnerAfter, k) = ForeignRows(entries, EntryOwner, k)]_vars

\* user U1's save for 2026-02, answered with success, updated and deleted by
\* the id of user U2's entry, which is still there as it was
C17_Witness ==
    \E s \in Slots :
        /\ reqs[s].pc = "done"
        /\ reqs[s].resp.status = 200
        /\ reqs[s].user_id = U1
        /\ Len(reqs[s].raw.ops.update_entries.items) = 1
        /\ reqs[s].raw.ops.update_entries.items[1].entry_id = JStr("e2")
        /\ reqs[s].raw.ops.delete_entry_ids.items = <<JStr("e1"), JStr("e2")>>
        /\ "e1" \notin DOMAIN entries
        /\ entries["e2"] = TenantEntries["e2"]
        /\ entries["e2"].user_id = U2

\* C19: when the category lookup or the batch throws, the request ends in an
\* internal-error response (status 500) that carries nothing of the storage
\* error, each storage call was made at most once, and storage is as it was
\* before the request.
C19_FaultIsOpaqueInternalError ==
    \A s \in Slots :
        LET r == reqs[s] IN
        (r.pc = "done" /\ r.faulted)
        => /\ ~r.resp.thrown
           /\ r.resp.status = 500
           /\ r.resp.detail = ""
           /\ r.nLookup <= 1
           /\ r.nBatch <= 1
           /\ months = EmptyTable /\ entries = EmptyTable /\ daily_budgets = EmptyTable

\* C20: an authenticated POST to /api/monthly is given to handlePostMonthly
\* with the authenticated user id and is not answered 404.
C20_PostMonthlyIsRouted ==
    ( /\ http.pc = "done"
      /\ http.request.method = "POST"
      /\ http.request.pathname = "/api/monthly"
      /\ getAuthUserId(http.request, http.env).ok )
    => /\ http.response.status # 404
       /\ http.response.handler = "handlePostMonthly"
       /\ http.response.user_id = getAuthUserId(http.request, http.env).user_id

\* the request of slot s holds a create or an update
HasCreateOrUpdate(r) == Len(r.work.createEntries) + Len(r.work.updateEntries) > 0

\* the parts of C21 that count storage calls: at most one lookup and one
\* batch, no lookup without a create or an update, the lookup before the batch
StorageCallsOfRequests ==
    \A s \in Slots :
        LET r == reqs[s] IN
        /\ r.nLookup <= 1
        /\ r.nBatch <= 1
        /\ (~HasCreateOrUpdate(r) => r.nLookup = 0)
        /\ (r.pc = "lookup" => r.nLookup = 0 /\ r.nBatch = 0)
        /\ (r.nBatch = 1 /\ HasCreateOrUpdate(r) => r.nLookup = 1)
        /\ (r.pc = "done" /\ r.resp.status = 409 => r.nBatch = 1)

\* C21: every save request issues at most one category lookup (none when it
\* has no create or update, and always before the batch) and at most one
\* batch, then produces exactly one response; a conflict is followed by no
\* retry and no second batch.
C21_OneLookupOneBatchOneResponse ==
    /\ StorageCallsOfRequests
    /\ \A s \in Slots :
           reqs[s].pc = "done" => ~reqs[s].resp.thrown /\ reqs[s].resp.status # 0

\* the month a read was asked for has no row for the user it was asked by
ReadOfAbsentMonth(h) ==
    /\ h.pc = "done"
    /\ h.response.handler = "handleGetMonthly"
    /\ <<h.response.user_id, h.request.month_key.text>> \notin DOMAIN months

\* C22: the read path never mutates storage: a read of a month without a
\* month row answers month = null and creates no row; a month row comes into
\* existence only in the batch of a save.
C22_ReadNeverMutates ==
    [][ /\ (http' # http => storage' = storage)
        /\ (http' # http /\ ReadOfAbsentMonth(http')
            => http'.response.status = 200 /\ http'.response.month.null)
        /\ (DOMAIN months' # DOMAIN months => BatchStep(1)) ]_vars

C22_Witness ==
    /\ ReadOfAbsentMonth(http)
    /\ http.response.month.null
    /\ reqs[1].pc = "batch"

\* u_ followed by exactly 32 lowercase hex characters
Canonical(id) ==
    /\ Len(id) = 34
    /\ SubSeq(id, 1, 2) = "u_"
    /\ \A i \in 3..34 :
          SubSeq(id, i, i) \in {"0", "1", "2", "3", "4", "5", "6", "7", "8", "9",
                                "a", "b", "c", "d", "e", "f"}

\* the token of the request's Authorization header
BearerToken(request) == SubSeq(request.authorization.text, 8, Len(request.authorization.text))

\* C23: getAuthUserId returns a canonical user id or fails with an AuthError
\* of status 400 or 401; in production mode it returns an id only for a token
\* signed with AUTH_SECRET whose exp, if numeric, is not in the past.
C23_CanonicalIdOrAuthError ==
    http.pc = "done" =>
        LET a == getAuthUserId(http.request, http.env) IN
        /\ \/ a.ok /\ Canonical(a.user_id)
           \/ ~a.ok /\ a.authError /\ a.status \in {400, 401}
        /\ (a.ok /\ http.env.DEV_MODE = ""
            => /\ BearerToken(http.request) \in DOMAIN Tokens
               /\ LET t == Tokens[BearerToken(http.request)] IN
                  /\ http.env.AUTH_SECRET # ""
                  /\ t.signedWith = http.env.AUTH_SECRET
                  /\ (t.exp = 0 \/ t.exp >= NowSeconds))

\* what the statements of a batch must be, read off the request body: the
\* operation and what identifies its target, in the order of the contract
ExpectedStatements(raw) ==
    <<[op |-> "insert_month", target |-> ""], [op |-> "bump_version", target |-> ""]>>
    \o [i \in DOMAIN raw.ops.create_entries.items |->
          [op |-> "insert_entry",
           target |-> IF raw.ops.create_entries.items[i].entry_id.t = "string"
                      THEN raw.ops.create_entries.items[i].entry_id.s ELSE "uuid-"]]
    \o [i \in DOMAIN raw.ops.update_entries.items |->
          [op |-> "update_entry", target |-> raw.ops.update_entries.items[i].entry_id.s]]
    \o [i \in DOMAIN raw.ops.delete_entry_ids.items |->
          [op |-> "delete_entry", target |-> raw.ops.delete_entry_ids.items[i].s]]
    \o [i \in DOMAIN raw.ops.upsert_daily_budgets.items |->
          [op |-> "upsert_daily_budget",
           target |-> raw.ops.upsert_daily_budgets.items[i].date.s \o "="
                        \o ToString(raw.ops.upsert_daily_budgets.items[i]
                                       .daily_budget_override.h \div 2)]]
    \o [i \in DOMAIN raw.ops.delete_daily_budget_dates.items |->
          [op |-> "delete_daily_budget",
           target |-> raw.ops.delete_daily_budget_dates.items[i].s]]

\* the same reading of a statement the handler built
StatementTarget(st) ==
    CASE st.op \in {"insert_month", "bump_version"} -> ""
      [] st.op = "insert_entry" ->
            IF Len(st.e.entry_id) >= 5 /\ SubSeq(st.e.entry_id, 1, 5) = "uuid-"
            THEN "uuid-" ELSE st.e.entry_id
      [] st.op = "update_entry" -> st.e.entry_id
      [] st.op = "delete_entry" -> st.entry_id
      [] st.op = "upsert_daily_budget" -> st.date \o "=" \o ToString(st.override)
      [] st.op = "delete_daily_budget" -> st.date

\* C24: the batch of a non-empty request that passed the pre-flight checks
\* has 2 + (number of operations) statements: insert-month-if-missing, the
\* version guard at index 1, then creates, updates, entry deletions, budget
\* upserts, budget deletions, each group in request order; and the answer is
\* the conflict exactly when the guard statement affected no row.
C24_BatchShapeAndConflictDecision ==
    [][\A s \in Slots :
         LET r == reqs[s]
             stmts == BuildBatch(r.user_id, r.work)
             want == ExpectedStatements(r.raw)
         IN
         BatchStep(s)
         => /\ Len(stmts) = 2 + TotalOps(r.raw.ops)
            /\ Len(stmts) = Len(want)
            /\ \A i \in DOMAIN stmts :
                  /\ stmts[i].op = want[i].op
                  /\ StatementTarget(stmts[i]) = want[i].target
                  /\ stmts[i].user_id = r.user_id
                  /\ stmts[i].month_key = r.raw.month_key.s
            /\ stmts[2].version * 2 = r.raw.expected_version.h
            /\ (~reqs'[s].resp.thrown
                => /\ reqs'[s].resp.status \in {200, 409}
                   /\ (reqs'[s].resp.status = 409
                       <=> StoredVersionIn(months, r.user_id, r.raw.month_key.s) * 2
                             # r.raw.expected_version.h))]_vars

\* a conflict answered to a request of two operations of different groups
C24_Witness ==
    \E s \in Slots :
        /\ reqs[s].pc = "done"
        /\ reqs[s].nBatch = 1
        /\ reqs[s].resp.status = 409
        /\ Len(reqs[s].work.upsertDailyBudgets) = 1
        /\ Len(reqs[s].work.deleteEntryIds) = 1

\* C25: a save against a month whose row exists leaves the row's
\* monthly_budget, cutoff_type and cutoff_day as they were and never lowers
\* its version; the row stays the one row of its (user, month_key).
C25_ExistingMonthRowKept ==
    [][\A k \in DOMAIN months :
         /\ k \in DOMAIN months'
         /\ months'[k].monthly_budget = months[k].monthly_budget
         /\ months'[k].cutoff_type = months[k].cutoff_type
         /\ months'[k].cutoff_day = months[k].cutoff_day
         /\ months'[k].version \in {months[k].version, months[k].version + 1}
         /\ Cardinality({j \in DOMAIN months' : j = k}) = 1]_vars

\* a successful save on a provisioned month
C25_Witness ==
    /\ reqs[1].pc = "done"
    /\ reqs[1].nBatch = 1
    /\ reqs[1].resp.status = 200
    /\ KeyOf(reqs[1]) \in DOMAIN months
    /\ months[KeyOf(reqs[1])].version = 2
    /\ months[KeyOf(reqs[1])].monthly_budget = SqlInt(200000)

\* the dates a request asks to delete the override of
DeletedDates(raw) ==
    {raw.ops.delete_daily_budget_dates.items[i].s :
        i \in DOMAIN raw.ops.delete_daily_budget_dates.items}

\* the override of the last upsert for date d in the request
LastOverride(raw, d) ==
    LET ups == raw.ops.upsert_daily_budgets.items
        last == CHOOSE i \in DOMAIN ups :
                    /\ ups[i].date.s = d
                    /\ \A j \in DOMAIN ups : ups[j].date.s = d => j <= i
    IN ups[last].daily_budget_override.h \div 2

\* C26: after a successful save every date of upsert_daily_budgets that is
\* not in delete_daily_budget_dates has one daily-budget row under the
\* request's (user, month_key), holding the override of the request's last
\* upsert for that date, whether or not the row existed before.
C26_UpsertLeavesLastOverride ==
    [][\A s \in Slots :
         LET r == reqs[s]
             ups == r.raw.ops.upsert_daily_budgets.items
         IN
         (BatchStep(s) /\ reqs'[s].resp.status = 200)
         => \A i \in DOMAIN ups :
               LET key == <<r.user_id, r.raw.month_key.s, ups[i].date.s>> IN
               ups[i].date.s \notin DeletedDates(r.raw)
               => /\ key \in DOMAIN daily_budgets'
                  /\ daily_budgets'[key] = LastOverride(r.raw, ups[i].date.s)
                  /\ Cardinality({k \in DOMAIN daily_budgets' : k = key}) = 1]_vars

\* the second save of the month overwrites the override the first one stored
C26_Witness ==
    /\ reqs[1].pc = "done" /\ reqs[1].resp.status = 200 /\ reqs[1].resp.new_version = 1
    /\ reqs[1].work.upsertDailyBudgets = <<[date |-> "2026-02-05", daily_budget_override |-> 7]>>
    /\ reqs[1].work.deleteDailyBudgetDates = <<>>
    /\ reqs[2].pc = "done" /\ reqs[2].resp.status = 200 /\ reqs[2].resp.new_version = 2
    /\ Len(reqs[2].work.upsertDailyBudgets) = 2
    /\ reqs[2].work.upsertDailyBudgets[2].daily_budget_override = 5
    /\ daily_budgets[<<U1, MK1, "2026-02-05">>] = 5

\* the entry ids a request both writes (creates or updates) and deletes, and
\* the dates it both upserts and deletes
WrittenAndDeletedIds(raw) ==
    ({raw.ops.create_entries.items[i].entry_id.s : i \in DOMAIN raw.ops.create_entries.items}
       \cup {raw.ops.update_entries.items[i].entry_id.s :
               i \in DOMAIN raw.ops.update_entries.items})
    \cap {raw.ops.delete_entry_ids.items[i].s : i \in DOMAIN raw.ops.delete_entry_ids.items}

UpsertedAndDeletedDates(raw) ==
    {raw.ops.upsert_daily_budgets.items[i].date.s :
        i \in DOMAIN raw.ops.upsert_daily_budgets.items}
    \cap DeletedDates(raw)

\* C27 as stated: after a successful batch an entry id that the request both
\* writes and deletes is absent from storage, and a date it both upserts and
\* deletes has no override row.
C27_WrittenAndDeletedIsAbsent ==
    [][\A s \in Slots :
         LET r == reqs[s] IN
         (BatchStep(s) /\ reqs'[s].resp.status = 200)
         => /\ \A id \in WrittenAndDeletedIds(r.raw) : id \notin DOMAIN entries'
            /\ \A d \in UpsertedAndDeletedDates(r.raw) :
                  <<r.user_id, r.raw.month_key.s, d>> \notin DOMAIN daily_budgets']_vars

\* C27, within the request's (user, month_key): after a successful batch no
\* entry row of the request's (user, month_key) has an id that the request
\* both writes and deletes, and a date it both upserts and deletes has no
\* override row; an entry of that id under another user or month stays.
C27_WrittenAndDeletedIsAbsentInScope ==
    [][\A s \in Slots :
         LET r == reqs[s] IN
         (BatchStep(s) /\ reqs'[s].resp.status = 200)
         => /\ \A id \in WrittenAndDeletedIds(r.raw) :
                  /\ ~( /\ id \in DOMAIN entries'
                        /\ entries'[id].user_id = r.user_id
                        /\ entries'[id].month_key = r.raw.month_key.s )
                  /\ (id \in DOMAIN entries' => id \in DOMAIN entries /\ entries'[id] = entries[id])
            /\ \A d \in UpsertedAndDeletedDates(r.raw) :
                  <<r.user_id, r.raw.month_key.s, d>> \notin DOMAIN daily_budgets']_vars

\* a successful save that created and deleted entry e4
C27_Witness ==
    /\ reqs[1].pc = "done"
    /\ reqs[1].resp.status = 200
    /\ reqs[1].resp.applied.created_entries = 1
    /\ WrittenAndDeletedIds(reqs[1].raw) = {"e4"}
    /\ "e4" \notin DOMAIN entries

\* month key mk names a month after the month of date t
IsFutureMonth(mk, t) ==
    \/ NumberAt(mk, 1, 4) > t.y
    \/ NumberAt(mk, 1, 4) = t.y /\ NumberAt(mk, 6, 7) > t.m

\* C28 as stated: every save to a month later than the current month is
\* rejected as read-only (403) without storage access.
C28_FutureMonthReadOnly ==
    \A s \in Slots :
        LET r == reqs[s] IN
        ( /\ r.pc # "idle"
          /\ r.raw.parses
          /\ r.raw.v = JObj
          /\ r.raw.month_key.t = "string"
          /\ MONTH_KEY_RE(r.raw.month_key.s)
          /\ IsFutureMonth(r.raw.month_key.s, now) )
        => (r.pc = "done" /\ r.resp.status = 403 /\ NoStorageAccess(r))

\* C28: no month later than the current month is in the editable set, and a
\* save to such a month whose body passes validateBody is answered 403 "This
\* month is read-only." without storage access, storage unchanged.
C28_ValidBodyFutureMonthReadOnly ==
    /\ \A k \in getEditableMonthKeys(now) : ~IsFutureMonth(k, now)
    /\ \A s \in Slots :
           LET r == reqs[s] IN
           ( /\ r.pc # "idle"
             /\ EnvelopeOk(r.raw)
             /\ IsFutureMonth(r.raw.month_key.s, now) )
           => /\ r.pc = "done"
              /\ r.resp.status = 403
              /\ r.resp.error = "This month is read-only."
              /\ NoStorageAccess(r)
              /\ StorageUntouchedV

\* a well-formed save of one entry on the month after the clock's
C28_Witness ==
    /\ reqs[1].pc = "done"
    /\ reqs[1].raw.month_key = JStr(FutureMK)
    /\ IsFutureMonth(FutureMK, now)
    /\ EnvelopeOk(reqs[1].raw)
    /\ reqs[1].raw.ops.create_entries.items = <<Good(FutureMK)>>
    /\ reqs[1].resp.status = 403
    /\ NoStorageAccess(reqs[1])

\* text d starts with month key mk followed by '-'
StartsWithMonth(d, mk) == Len(d) >= Len(mk) + 1 /\ SubSeq(d, 1, Len(mk) + 1) = mk \o "-"

UnmatchedIds(r) ==
    {id \in {r.raw.ops.update_entries.items[i].entry_id.s :
                i \in DOMAIN r.raw.ops.update_entries.items}
            \cup {r.raw.ops.delete_entry_ids.items[i].s :
                    i \in DOMAIN r.raw.ops.delete_entry_ids.items} :
        /\ ~( /\ id \in DOMAIN entries
              /\ entries[id].user_id = r.user_id
              /\ entries[id].month_key = r.raw.month_key.s )
        /\ \A i \in DOMAIN r.raw.ops.create_entries.items :
              r.raw.ops.create_entries.items[i].entry_id # JStr(id)}

\* C30: an update or a deletion whose entry_id matches no entry row under the
\* request's (user, month_key) changes no entry row and creates none; when
\* the request's expected_version is the stored one the save still succeeds,
\* the version grows by one and the operation is counted in applied.
C30_UnmatchedUpdateOrDeleteStillCounts ==
    [][\A s \in Slots :
         LET r == reqs[s] IN
         (BatchStep(s) /\ UnmatchedIds(r) # {})
         => /\ \A id \in UnmatchedIds(r) :
                  /\ (id \in DOMAIN entries' <=> id \in DOMAIN entries)
                  /\ (id \in DOMAIN entries => entries'[id] = entries[id])
            /\ (StoredVersion(r.user_id, r.raw.month_key.s) * 2 = r.raw.expected_version.h
                => /\ reqs'[s].resp.status = 200
                   /\ months'[KeyOf(r)].version
                        = StoredVersion(r.user_id, r.raw.month_key.s) + 1
                   /\ reqs'[s].resp.new_version = months'[KeyOf(r)].version
                   /\ reqs'[s].resp.applied.updated_entries
                        = Len(r.raw.ops.update_entries.items)
                   /\ reqs'[s].resp.applied.deleted_entries
                        = Len(r.raw.ops.delete_entry_ids.items))]_vars

\* a successful save whose only operation updates an id that no entry has
C30_Witness ==
    /\ reqs[1].pc = "done"
    /\ reqs[1].resp.status = 200
    /\ reqs[1].resp.applied.updated_entries = 1
    /\ reqs[1].resp.applied.deleted_entries = 0
    /\ reqs[1].raw.ops.update_entries.items[1].entry_id = JStr("e4")
    /\ entries = TenantEntries
    /\ months[KeyOf(reqs[1])].version = 2

\* values of the X-Debug-User header: absent, blank, two user ids, not an id
DebugUserValues ==
    {[present |-> FALSE, text |-> ""], [present |-> TRUE, text |-> ""],
     [present |-> TRUE, text |-> "u_a1b2c3d4e5f60718293a4b5c6d7e8f90"],
     [present |-> TRUE, text |-> "u_00000000000000000000000000000002"],
     [present |-> TRUE, text |-> "admin"]}

\* C31: in production mode (DEV_MODE empty) requests that differ only in the
\* X-Debug-User header get the same outcome from getAuthUserId, and a request
\* without a Bearer token gets no user id whatever that header says.
C31_DebugHeaderIgnoredInProduction ==
    (http.pc = "done" /\ http.env.DEV_MODE = "")
    => \A d \in DebugUserValues :
          LET other == [http.request EXCEPT !.debugUser = d] IN
          /\ getAuthUserId(other, http.env) = getAuthUserId(http.request, http.env)
          /\ (~http.request.authorization.present => ~getAuthUserId(other, http.env).ok)

\* a production request whose X-Debug-User names one user and whose token
\* names another is served as the token's user
C31_Witness ==
    /\ http.pc = "done"
    /\ http.env.DEV_MODE = ""
    /\ http.request.debugUser = [present |-> TRUE, text |-> "u_a1b2c3d4e5f60718293a4b5c6d7e8f90"]
    /\ http.request.authorization.text = "Bearer pnoexp.sig"
    /\ http.response.status = 200
    /\ http.response.user_id = "u_00000000000000000000000000000002"

\* the lists of ops that the body carries with a value that is neither an
\* array nor null
NonArrayFields(ops) ==
    {l \in {ops.create_entries, ops.update_entries, ops.delete_entry_ids,
            ops.upsert_daily_budgets, ops.delete_daily_budget_dates} :
        l.v.t \notin {"undefined", "null", "array"}}

\* C32: a request for an editable month whose envelope is valid and one of
\* whose five ops fields is present with a value that is not an array (0,
\* false, the empty string, an object, ...) is rejected with a validation
\* error (400); the value is never taken for an empty list.
C32_NonArrayFieldRejected ==
    \A s \in Slots :
        LET r == reqs[s] IN
        ( /\ r.pc # "idle"
          /\ EnvelopeOk(r.raw)
          /\ r.raw.month_key.s \in SixMonths(now)
          /\ NonArrayFields(r.raw.ops) # {} )
        => (r.pc = "done" /\ r.resp.status = 400 /\ NoStorageAccess(r))

====
